---- MODULE Spec2Model ----
(***************************************************************************)
(* The versioned image store of catfetch (package catdb): OpenDB, Close,   *)
(* InitDB, AddCatVersion and hashURL over a bbolt database.  The database  *)
(* is a tree of buckets; a write transaction works on a private copy of    *)
(* the committed tree and replaces it at commit.                           *)
(***************************************************************************)
EXTENDS Integers, Sequences, FiniteSets, TLC

\* ------------------------------------------------------------ constants
bucketCats == "cats"
bucketMetadata == "metadata"
bucketData == "data"
dbKeyImgData == "img_data"
dbKeyMetaId == "cat_id"
dbKeyMetaTags == "tags"
dbKeyMetaCreatedAt == "created_at"
dbKeyMetaURL == "url"
dbKeyMetaMIMEType == "mime_type"

MetaKeys == {dbKeyMetaId, dbKeyMetaTags, dbKeyMetaCreatedAt, dbKeyMetaURL, dbKeyMetaMIMEType}

\* ------------------------------------------------------------- hashURL
\* A 64-bit word is eight byte limbs, least significant first.
Limbs == 1..8

\* Bit k of a byte, and a XOR b on bytes.
Bit(a, k) == (a \div (2 ^ k)) % 2

XorByte(a, b) ==
    LET x(k) == ((Bit(a, k) + Bit(b, k)) % 2) * (2 ^ k)
    IN  x(0) + x(1) + x(2) + x(3) + x(4) + x(5) + x(6) + x(7)

\* fnv.New64a(): the FNV-1a offset basis 0xcbf29ce484222325.
FnvOffset64 == <<37, 35, 34, 132, 228, 156, 242, 203>>

\* h * 0x100000001b3 modulo 2^64: h * 0x1b3 + (h << 40), carries propagated
\* from the least significant limb up.
FnvMulPrime(h) ==
    LET raw == [i \in Limbs |-> h[i] * 435 + (IF i >= 6 THEN h[i - 5] ELSE 0)]
        s1 == raw[1]
        s2 == raw[2] + (s1 \div 256)
        s3 == raw[3] + (s2 \div 256)
        s4 == raw[4] + (s3 \div 256)
        s5 == raw[5] + (s4 \div 256)
        s6 == raw[6] + (s5 \div 256)
        s7 == raw[7] + (s6 \div 256)
        s8 == raw[8] + (s7 \div 256)
    IN  <<s1 % 256, s2 % 256, s3 % 256, s4 % 256, s5 % 256, s6 % 256, s7 % 256, s8 % 256>>

\* hash.Write for FNV-1a: for each byte, xor into the low byte, then multiply.
RECURSIVE FnvWrite(_, _)
FnvWrite(h, bytes) ==
    IF bytes = <<>> THEN h
    ELSE LET x == [h EXCEPT ![1] = XorByte(h[1], Head(bytes))]
             m == FnvMulPrime(x)
         IN  IF Len(m) = 8 THEN FnvWrite(m, Tail(bytes)) ELSE m

HexDigit(d) ==
    CASE d = 0 -> "0" [] d = 1 -> "1" [] d = 2 -> "2" [] d = 3 -> "3"
      [] d = 4 -> "4" [] d = 5 -> "5" [] d = 6 -> "6" [] d = 7 -> "7"
      [] d = 8 -> "8" [] d = 9 -> "9" [] d = 10 -> "a" [] d = 11 -> "b"
      [] d = 12 -> "c" [] d = 13 -> "d" [] d = 14 -> "e" [] d = 15 -> "f"

\* The sixteen hex digits of a word, most significant first.
Nibbles(h) ==
    [k \in 1..16 |->
        LET limb == h[8 - ((k - 1) \div 2)]
        IN  IF (k % 2) = 1 THEN limb \div 16 ELSE limb % 16]

\* fmt.Sprintf("%x", v): hexadecimal without leading zeros ("0" for zero).
RECURSIVE HexFrom(_, _, _)
HexFrom(ds, k, started) ==
    IF k > 16 THEN (IF started THEN "" ELSE "0")
    ELSE IF ds[k] = 0 /\ ~started THEN HexFrom(ds, k + 1, FALSE)
    ELSE HexDigit(ds[k]) \o HexFrom(ds, k + 1, TRUE)

\* Faulty variant: fmt.Sprintf("%016x", v), padded with zeros to 16 digits.
SprintfPadded(h) == HexFrom(Nibbles(h), 1, TRUE)

SprintfX(h) == HexFrom(Nibbles(h), 1, FALSE)

\* The URLs of the model and their bytes, []byte(url).  URL2 and URL3 are two
\* different URLs with the same FNV-1a sum, 0x036b52465dd4f80e.
URL1 == "https://x/1.png"
URL2 == "https://x/160193f6ebaebab1"
URL3 == "https://x/3c2e2a0408106277"

URLs == {URL1, URL2, URL3}

URLPrefix == <<104, 116, 116, 112, 115, 58, 47, 47, 120, 47>>

URLBytes(u) ==
    CASE u = URL1 -> URLPrefix \o <<49, 46, 112, 110, 103>>
      [] u = URL2 -> URLPrefix \o <<49, 54, 48, 49, 57, 51, 102, 54, 101, 98, 97, 101, 98, 97, 98, 49>>
      [] u = URL3 -> URLPrefix \o <<51, 99, 50, 101, 50, 97, 48, 52, 48, 56, 49, 48, 54, 50, 55, 55>>

\* h := fnv.New64a(); h.Write([]byte(url)); h.Sum64()
Sum64(u) == FnvWrite(FnvOffset64, URLBytes(u))

\* The version id of each URL of the model, computed once.
VersionIdOf == [u \in URLs |-> SprintfX(Sum64(u))]

hashURL(u) == VersionIdOf[u]

\* ------------------------------------------------------ metadata inputs
\* strings.Join(tags, sep)
RECURSIVE Join(_, _)
Join(tags, sep) ==
    IF tags = <<>> THEN ""
    ELSE IF Len(tags) = 1 THEN tags[1]
    ELSE tags[1] \o sep \o Join(Tail(tags), sep)

\* CreatedAt.Format(time.RFC3339): a time is the second and the nanosecond
\* within one fixed UTC minute; the format keeps whole seconds only.
FormatRFC3339(t) ==
    "2025-01-01T00:00:" \o ToString(t.sec \div 10) \o ToString(t.sec % 10) \o "Z"

Meta(id, tags, at, url, mime) ==
    [ID |-> id, Tags |-> tags, CreatedAt |-> at, URL |-> url, MIMEType |-> mime]

TimeA == [sec |-> 5, nsec |-> 0]
TimeB == [sec |-> 42, nsec |-> 7]

\* The (metadata, catData) pairs callers pass to AddCatVersion.
In1 == [md |-> Meta("c1", <<"a", "b">>, TimeA, URL1, "image/png"), data |-> <<1, 2>>]
In2 == [md |-> Meta("c1", <<"a">>, TimeA, URL1, "image/png"), data |-> <<1, 2>>]
In4 == [md |-> Meta("c1", <<"a", "b">>, TimeA, URL2, "image/png"), data |-> <<4>>]
In7 == [md |-> Meta("c1", <<"b", "c", "a">>, TimeB, URL3, "image/png"), data |-> <<7>>]
In5 == [md |-> Meta("c2", <<>>, TimeB, URL1, "image/gif"), data |-> <<>>]
In6 == [md |-> Meta("", <<"a">>, TimeA, URL1, "image/png"), data |-> <<1, 2>>]

Inputs == {In1, In2, In4, In5, In6, In7}
NoInput == [md |-> Meta("-", <<>>, TimeA, URL1, "-"), data |-> <<>>]

\* ------------------------------------------------------- the bucket tree
NoErr == "nil"

Bucket(kids) == [isBucket |-> TRUE, kids |-> kids, val |-> <<>>]
Value(v) == [isBucket |-> FALSE, kids |-> <<>>, val |-> v]
EmptyBucket == Bucket(<<>>)

HasKey(b, k) == k \in DOMAIN b.kids
HasBucket(b, k) == HasKey(b, k) /\ b.kids[k].isBucket

\* The node at a path of keys below a bucket (the path exists).
RECURSIVE GetAt(_, _)
GetAt(b, path) ==
    IF path = <<>> THEN b ELSE GetAt(b.kids[Head(path)], Tail(path))

RECURSIVE ExistsAt(_, _)
ExistsAt(b, path) ==
    IF path = <<>> THEN TRUE
    ELSE b.isBucket /\ HasKey(b, Head(path)) /\ ExistsAt(b.kids[Head(path)], Tail(path))

\* The tree with the node at an existing bucket path replaced.
RECURSIVE SetAt(_, _, _)
SetAt(b, path, node) ==
    IF path = <<>> THEN node
    ELSE Bucket([k \in DOMAIN b.kids |->
                    IF k = Head(path) THEN SetAt(b.kids[k], Tail(path), node)
                    ELSE b.kids[k]])

WithKid(b, k, node) ==
    Bucket([j \in DOMAIN b.kids \cup {k} |-> IF j = k THEN node ELSE b.kids[j]])

\* Faulty variant: the bucket is created empty whether or not it exists.
CreateBucketAlways(root, path, key) ==
    IF key = "" THEN [err |-> "bucket name required", root |-> root]
    ELSE [err |-> NoErr, root |-> SetAt(root, path, WithKid(GetAt(root, path), key, EmptyBucket))]

\* Bucket.CreateBucketIfNotExists(key) on the bucket at path: the existing
\* bucket is kept as it is; an empty name or a key holding a value is an error.
CreateBucketIfNotExists(root, path, key) ==
    LET b == GetAt(root, path)
    IN  IF key = "" THEN [err |-> "bucket name required", root |-> root]
        ELSE IF HasKey(b, key) /\ ~b.kids[key].isBucket
             THEN [err |-> "incompatible value", root |-> root]
        ELSE IF HasKey(b, key) THEN [err |-> NoErr, root |-> root]
        ELSE [err |-> NoErr, root |-> SetAt(root, path, WithKid(b, key, EmptyBucket))]

\* Faulty variant: a key that holds a value keeps it.
PutIfAbsent(root, path, key, v) ==
    LET b == GetAt(root, path)
    IN  IF HasKey(b, key) THEN [err |-> NoErr, root |-> root]
        ELSE [err |-> NoErr, root |-> SetAt(root, path, WithKid(b, key, Value(v)))]

\* Bucket.Put(key, value) on the bucket at path: sets or overwrites the key.
Put(root, path, key, v) ==
    LET b == GetAt(root, path)
    IN  IF HasBucket(b, key) THEN [err |-> "incompatible value", root |-> root]
        ELSE [err |-> NoErr, root |-> SetAt(root, path, WithKid(b, key, Value(v)))]

\* --------------------------------------- the steps of AddCatVersion's body
CatsPath == <<bucketCats>>
CatPath(x) == <<bucketCats, x.md.ID>>
VersionPath(x, v) == <<bucketCats, x.md.ID, v>>
MetadataPath(x, v) == <<bucketCats, x.md.ID, v, bucketMetadata>>
DataPath(x, v) == <<bucketCats, x.md.ID, v, bucketData>>

\* Faulty variant: the entity bucket is created anew on every call.
StepEntityRecreate(root, x, v) ==
    IF ~HasBucket(root, bucketCats) \/ x.md.ID = ""
    THEN [err |-> "bucket name required", root |-> root]
    ELSE [err |-> NoErr,
          root |-> SetAt(root, CatsPath, WithKid(GetAt(root, CatsPath), x.md.ID, EmptyBucket))]

\* b := tx.Bucket("cats"); cat, err := b.CreateBucketIfNotExists(catId).
\* A missing top-level bucket is a nil *Bucket, and the call on it panics.
StepEntity(root, x, v) ==
    IF ~HasBucket(root, bucketCats) THEN [err |-> "panic: nil bucket", root |-> root]
    ELSE CreateBucketIfNotExists(root, CatsPath, x.md.ID)

StepVersion(root, x, v) == CreateBucketIfNotExists(root, CatPath(x), v)

StepMetadata(root, x, v) == CreateBucketIfNotExists(root, VersionPath(x, v), bucketMetadata)

\* Faulty variant: the version id is stored under cat_id.
StepPutIdVersion(root, x, v) == Put(root, MetadataPath(x, v), dbKeyMetaId, v)

StepPutId(root, x, v) == Put(root, MetadataPath(x, v), dbKeyMetaId, x.md.ID)

\* Faulty variant: the tags are appended to the stored ones.
StepPutTagsAppend(root, x, v) ==
    LET md == GetAt(root, MetadataPath(x, v))
        old == IF HasKey(md, dbKeyMetaTags) THEN md.kids[dbKeyMetaTags].val ELSE ""
    IN  Put(root, MetadataPath(x, v), dbKeyMetaTags, old \o Join(x.md.Tags, ", "))

\* Faulty variant: the tags are joined by a comma alone.
StepPutTagsComma(root, x, v) == Put(root, MetadataPath(x, v), dbKeyMetaTags, Join(x.md.Tags, ","))

StepPutTags(root, x, v) == Put(root, MetadataPath(x, v), dbKeyMetaTags, Join(x.md.Tags, ", "))

StepPutCreatedAt(root, x, v) ==
    Put(root, MetadataPath(x, v), dbKeyMetaCreatedAt, FormatRFC3339(x.md.CreatedAt))

\* Faulty variant: the MIME type is stored under the url key.
StepPutURLAsMIMEType(root, x, v) == Put(root, MetadataPath(x, v), dbKeyMetaURL, x.md.MIMEType)

StepPutURL(root, x, v) == Put(root, MetadataPath(x, v), dbKeyMetaURL, x.md.URL)

StepPutMIMEType(root, x, v) == Put(root, MetadataPath(x, v), dbKeyMetaMIMEType, x.md.MIMEType)

StepData(root, x, v) == CreateBucketIfNotExists(root, VersionPath(x, v), bucketData)

\* Faulty variant: the payload is also put into the Version of the same
\* version id of every other Entity.
StepPutDataSameId(root, x, v) ==
    LET r == Put(root, DataPath(x, v), dbKeyImgData, x.data)
        cats == r.root.kids[bucketCats]
        Spread(e) ==
            IF e # x.md.ID /\ ExistsAt(cats.kids[e], <<v, bucketData>>)
            THEN SetAt(cats.kids[e], <<v, bucketData, dbKeyImgData>>, Value(x.data))
            ELSE cats.kids[e]
    IN  [err |-> r.err,
         root |-> SetAt(r.root, CatsPath, Bucket([e \in DOMAIN cats.kids |-> Spread(e)]))]

\* Faulty variant: an overwrite keeps the old payload and adds a second key.
StepPutDataNewKey(root, x, v) ==
    IF HasKey(GetAt(root, DataPath(x, v)), dbKeyImgData)
    THEN Put(root, DataPath(x, v), dbKeyImgData \o "_2", x.data)
    ELSE Put(root, DataPath(x, v), dbKeyImgData, x.data)

StepPutData(root, x, v) == Put(root, DataPath(x, v), dbKeyImgData, x.data)

\* The statements of the transaction function, in program order.
TxSteps ==
    <<"entity", "version", "metadata", "putId", "putTags", "putCreatedAt",
      "putURL", "putMIMEType", "data", "putData">>

StepEffect(s, root, x, v) ==
    CASE s = "entity" -> StepEntity(root, x, v)
      [] s = "version" -> StepVersion(root, x, v)
      [] s = "metadata" -> StepMetadata(root, x, v)
      [] s = "putId" -> StepPutId(root, x, v)
      [] s = "putTags" -> StepPutTags(root, x, v)
      [] s = "putCreatedAt" -> StepPutCreatedAt(root, x, v)
      [] s = "putURL" -> StepPutURL(root, x, v)
      [] s = "putMIMEType" -> StepPutMIMEType(root, x, v)
      [] s = "data" -> StepData(root, x, v)
      [] s = "putData" -> StepPutData(root, x, v)

StepIndex(s) == CHOOSE i \in 1..Len(TxSteps) : TxSteps[i] = s

\* Faulty variant: the function returns nil after the metadata puts.
NextStepNoData(s) ==
    IF s = "putMIMEType" \/ StepIndex(s) = Len(TxSteps) THEN "commit"
    ELSE TxSteps[StepIndex(s) + 1]

\* The statement after s, or the commit when the function returns nil.
NextStep(s) ==
    IF StepIndex(s) = Len(TxSteps) THEN "commit" ELSE TxSteps[StepIndex(s) + 1]

\* The whole transaction function run on a tree from statement i without
\* interruption: the tree it commits, or the tree unchanged when a
\* statement returns an error.
RECURSIVE RunFrom(_, _, _, _, _)
RunFrom(i, root, base, x, v) ==
    IF i > Len(TxSteps) THEN root
    ELSE CHOOSE t \in {IF r.err # NoErr THEN base ELSE RunFrom(i + 1, r.root, base, x, v) :
                          r \in {StepEffect(TxSteps[i], root, x, v)}} : TRUE

\* One AddCatVersion(x) alone on a store whose committed tree is root.
SequentialAdd(root, x) == RunFrom(1, root, root, x, hashURL(x.md.URL))

\* Faulty variant: InitDB commits without creating the top-level bucket.
StepInitNothing(root) == [err |-> NoErr, root |-> root]

\* Faulty variant: InitDB creates the top-level bucket anew.
StepInitFresh(root) == [err |-> NoErr, root |-> WithKid(root, bucketCats, EmptyBucket)]

\* InitDB's transaction function: tx.CreateBucketIfNotExists("cats").
StepInit(root) == CreateBucketIfNotExists(root, <<>>, bucketCats)

\* ------------------------------------------- images, metadata and responses
\* An image.Image value (nil, or the decoded picture with its bounds) and a
\* *CatMetadata value (nil, or a pointer to the decoded record).
Img(f, w, h) == [nil |-> FALSE, format |-> f, w |-> w, h |-> h]
NilImg == [nil |-> TRUE, format |-> "", w |-> 0, h |-> 0]
MetaPtr(m) == [nil |-> FALSE, md |-> m]
NilMeta == [nil |-> TRUE, md |-> Meta("", <<>>, TimeA, "", "")]
NilErr == "nil"

\* The first bytes by which the registered decoders (image/png, image/jpeg,
\* image/gif) recognize a stream.
MagicPNG == <<137, 80, 78, 71>>
MagicJPEG == <<255, 216>>
MagicGIF == <<71, 73, 70>>

HasPrefix(b, m) == Len(b) >= Len(m) /\ SubSeq(b, 1, Len(m)) = m

\* image.Decode(bytes.NewReader(b)): the format is sniffed from the first
\* bytes; the picture follows (here its width and height).
DecodeFormat(b) ==
    IF HasPrefix(b, MagicPNG) THEN "png"
    ELSE IF HasPrefix(b, MagicJPEG) THEN "jpeg"
    ELSE IF HasPrefix(b, MagicGIF) THEN "gif"
    ELSE ""

MagicOf(f) ==
    CASE f = "png" -> MagicPNG [] f = "jpeg" -> MagicJPEG [] f = "gif" -> MagicGIF

imageDecode(b) ==
    LET f == DecodeFormat(b)
    IN  IF f = "" THEN [img |-> NilImg, format |-> "", err |-> "image: unknown format"]
        ELSE IF Len(b) # Len(MagicOf(f)) + 2
             THEN [img |-> NilImg, format |-> "", err |-> "unexpected EOF"]
        ELSE [img |-> Img(f, b[Len(b) - 1], b[Len(b)]), format |-> f, err |-> NilErr]

\* Bodies the image server can send.
PNGBytes == MagicPNG \o <<4, 3>>
GIFBytes == MagicGIF \o <<2, 2>>
CorruptBytes == MagicPNG \o <<4>>
ImageBodies == {PNGBytes, GIFBytes, CorruptBytes, <<>>, <<60, 104>>}

\* Bodies the metadata endpoint can send, and json.NewDecoder(body).Decode(&meta)
\* on each: a JSON object fills the fields it names, other text is an error.
MetaPNG == Meta("c1", <<"a", "b">>, TimeA, URL1, "image/png")
MetaJPEG == Meta("c2", <<"a">>, TimeB, URL2, "image/jpeg")
MetaEmpty == Meta("", <<>>, TimeA, "", "")
MetaBodies == {"{png}", "{jpeg}", "{}", "<html>"}

jsonDecode(body) ==
    CASE body = "{png}" -> [meta |-> MetaPNG, err |-> NilErr]
      [] body = "{jpeg}" -> [meta |-> MetaJPEG, err |-> NilErr]
      [] body = "{}" -> [meta |-> MetaEmpty, err |-> NilErr]
      [] OTHER -> [meta |-> MetaEmpty, err |-> "invalid character '<'"]

\* What a call returns: RequestRandomCat and ui.HandleButtonClick return
\* (image, metadata, error), handlers.HandleButtonClick (image, error).
Triple(i, m, e) == [img |-> i, meta |-> m, err |-> e]
NoTriple == Triple(NilImg, NilMeta, "-")

\* The state of one RequestRandomCat call made through ui.HandleButtonClick.
\* bodies: the response bodies obtained; open: those not yet closed;
\* closeErrs: those whose Close returned an error; sent: the URLs of the
\* requests handed to the transport, in order.
RqIdle ==
    [pc |-> "idle", body |-> "", meta |-> MetaEmpty, respBody |-> <<>>,
     img |-> NilImg, format |-> "", ret |-> NoTriple, out |-> NoTriple,
     bodies |-> {}, open |-> {}, closeErrs |-> {}, sent |-> <<>>]

\* The window's events as Run's type switch tells them apart.
DestroyEvent(err) == [type |-> "destroy", err |-> err]
FrameEvent == [type |-> "frame", err |-> NilErr]
ConfigEvent == [type |-> "config", err |-> NilErr]
NoEvent == [type |-> "-", err |-> NilErr]
DestroyErrs == {NilErr, "context lost"}
Events == {DestroyEvent(e) : e \in DestroyErrs} \cup {FrameEvent, ConfigEvent}

\* Run before its first event, and the window before it delivers one.
RunStart == [pc |-> "event", e |-> NoEvent, drawn |-> NilImg, err |-> "-"]
WinStart == [received |-> 0, frames |-> 0, committed |-> 0, invalidated |-> FALSE]

\* One `go func()` of Run: not running, or at a position of
\* handlers.HandleButtonClick and of the assignment that follows it.
FetchFree == [pc |-> "free", data |-> <<>>, img |-> NilImg, err |-> NilErr, word |-> ""]

\* Bodies api.RequestCat can read for the goroutines of Run.
CatBodies == {PNGBytes, GIFBytes, CorruptBytes}

\* An interface value is two machine words: the dynamic type and the data.
ImgWords == {"type", "data"}
StoreWord(cur, new, word) ==
    IF word = "type" THEN [cur EXCEPT !.nil = new.nil, !.format = new.format]
    ELSE [cur EXCEPT !.w = new.w, !.h = new.h]

\* The layout context of a frame and a call of Draw that has not been made.
Gtx(minW, minH, maxW, maxH) == [minW |-> minW, minH |-> minH, maxW |-> maxW, maxH |-> maxH]
Size(w, h) == [w |-> w, h |-> h]
DrIdle ==
    [pc |-> "idle", img |-> NilImg, gtx |-> Gtx(0, 0, 0, 0), dims |-> Size(0, 0),
     painted |-> FALSE]

\* float32: zero, or m / 2^k with a 24-bit significand 2^23 <= m < 2^24.
\* F32Round rounds n / 2^k to the nearest such value, ties to even.
RECURSIVE BitLen(_)
BitLen(n) == IF n = 0 THEN 0 ELSE 1 + BitLen(n \div 2)

F32Round(n, k) ==
    IF n = 0 THEN [m |-> 0, k |-> 0]
    ELSE LET b == BitLen(n)
         IN  IF b <= 24 THEN [m |-> n * 2^(24 - b), k |-> k + (24 - b)]
             ELSE LET s == b - 24
                      q == n \div 2^s
                      r == n % 2^s
                      half == 2^(s - 1)
                      up == r > half \/ (r = half /\ q % 2 = 1)
                  IN  IF ~up THEN [m |-> q, k |-> k - s]
                      ELSE IF q + 1 = 2^24 THEN [m |-> 2^23, k |-> k - s - 1]
                      ELSE [m |-> q + 1, k |-> k - s]

\* float32(a) / float32(b) for integers a >= 0 and 0 < b <= 16: the quotient
\* to 25 bits or more with a sticky bit, then rounded.
F32Div(a, b) ==
    IF a = 0 THEN [m |-> 0, k |-> 0]
    ELSE LET j == 29 - BitLen(a)
             q == (a * 2^j) \div b
             sticky == IF (a * 2^j) % b = 0 THEN 0 ELSE 1
         IN  F32Round(2 * q + sticky, j + 1)

\* float32(a) * x for a small integer a.
F32Mul(a, x) == F32Round(a * x.m, x.k)

F32Less(x, y) ==
    IF x.m = 0 THEN y.m # 0
    ELSE IF y.m = 0 THEN FALSE
    ELSE x.k > y.k \/ (x.k = y.k /\ x.m < y.m)

F32Min(x, y) == IF F32Less(y, x) THEN y ELSE x
F32Max(x, y) == IF F32Less(x, y) THEN y ELSE x

\* int(x) for x >= 0: the fraction is discarded.
F32Int(x) == IF x.k >= 0 THEN x.m \div 2^(x.k) ELSE x.m * 2^(0 - x.k)

\* Faulty variant: the larger of the two ratios.
ScaleCover(img, gtx) == F32Max(F32Div(gtx.maxW, img.w), F32Div(gtx.maxH, img.h))

\* scale := min(maxW/imgW, maxH/imgH)
Scale(img, gtx) == F32Min(F32Div(gtx.maxW, img.w), F32Div(gtx.maxH, img.h))

\* CatPic.Draw: the dimensions it returns and whether it added paint
\* operations.
Draw(img, gtx) ==
    IF img.nil THEN [dims |-> Size(gtx.minW, gtx.minH), painted |-> FALSE]
    ELSE LET scale == Scale(img, gtx)
             finalW == F32Int(F32Mul(img.w, scale))
             finalH == F32Int(F32Mul(img.h, scale))
         IN  [dims |-> Size(finalW, finalH), painted |-> TRUE]

\* ----------------------------------------------------------------- CatPic
\* The mutex of a CatPic: Unlocked, or the goroutine that holds it.
Unlocked == "-"

\* Before NewCatImage there is no CatPic.
NoPic == [made |-> FALSE, img |-> NilImg, isLoading |-> FALSE, mu |-> Unlocked]

\* &CatPic{img: img}: the zero mutex is unlocked, the zero flag is false.
NewCatImage(img) == [made |-> TRUE, img |-> img, isLoading |-> FALSE, mu |-> Unlocked]

\* What a method returns: a bool, an image, or nothing (both zero).
Res(b, img) == [b |-> b, img |-> img]
NoRes == Res(FALSE, NilImg)

\* The bodies of the methods, run holding the mutex: the CatPic they leave
\* and the value they return.
IsLoading(p) == [p |-> p, res |-> Res(p.isLoading, NilImg)]
GetImage(p) == [p |-> p, res |-> Res(FALSE, p.img)]

\* Faulty variant: storing a picture also ends the loading state.
SetImageClearsLoading(p, img) ==
    [p |-> [p EXCEPT !.img = img, !.isLoading = FALSE], res |-> NoRes]

SetImage(p, img) == [p |-> [p EXCEPT !.img = img], res |-> NoRes]
SetLoading(p) == [p |-> [p EXCEPT !.isLoading = TRUE], res |-> NoRes]
ClearLoading(p) == [p |-> [p EXCEPT !.isLoading = FALSE], res |-> NoRes]

Methods == {"IsLoading", "GetImage", "SetImage", "SetLoading", "ClearLoading"}

MethodBody(op, p, a) ==
    CASE op = "IsLoading" -> IsLoading(p)
      [] op = "GetImage" -> GetImage(p)
      [] op = "SetImage" -> SetImage(p, a)
      [] op = "SetLoading" -> SetLoading(p)
      [] op = "ClearLoading" -> ClearLoading(p)

\* The pair of registers a CatPic stands for, and the sequential meaning of
\* the methods on it: what a call makes of the pair and what it answers.
\* lastImg and lastLoading: what the write that returned last wrote, known
\* to be the latest write when no write of that register overlapped another.
RegStart(img) ==
    [img |-> img, loading |-> FALSE,
     lastImg |-> img, imgKnown |-> TRUE, lastLoading |-> FALSE, loadingKnown |-> TRUE]

RegApply(op, a, r) ==
    CASE op = "SetImage" -> [r EXCEPT !.img = a]
      [] op = "SetLoading" -> [r EXCEPT !.loading = TRUE]
      [] op = "ClearLoading" -> [r EXCEPT !.loading = FALSE]
      [] OTHER -> r

RegRead(op, r) ==
    CASE op = "IsLoading" -> Res(r.loading, NilImg)
      [] op = "GetImage" -> Res(FALSE, r.img)
      [] OTHER -> NoRes

\* The register a method writes, if any.
Writes(op) ==
    CASE op = "SetImage" -> "img"
      [] op \in {"SetLoading", "ClearLoading"} -> "loading"
      [] OTHER -> ""

\* A goroutine's call on the CatPic: its position, the method and argument,
\* whether Draw made the call, the value returned, the value the pair of
\* registers answers at the moment the body runs, whether no other write of
\* the same register was in progress during the call, and what the last
\* call handed back.
ThrIdle ==
    [pc |-> "idle", op |-> "", a |-> NilImg, inDraw |-> FALSE, res |-> NoRes,
     lin |-> NoRes, alone |-> FALSE, out |-> NoRes, dims |-> Size(0, 0)]

\* ------------------------------------------------------------ processes
\* Goroutines calling AddCatVersion and InitDB on the store, the owner that
\* closes and reopens it, and one reader of the database.
Callers == {"w1", "w2"}
Main == "main"
Procs == Callers \cup {Main}

\* The goroutines Run has started and not yet seen end.
Fetchers == {"g1", "g2"}

\* Events the window delivers to one Run.
MaxEvents == 3

\* The widths and heights of the pictures drawn and of the areas they are
\* drawn in; 13/11 is a ratio whose float32 value times 11 is below 13.
ImageSides == {1, 3, 4, 7, 11}
AreaSides == {0, 1, 6, 7, 13}
DrawImages == {NilImg} \cup {Img("png", w, h) : w, h \in ImageSides}
DrawContexts ==
    {Gtx(minW, minH, maxW, maxH) : minW, minH \in 0..1, maxW, maxH \in AreaSides}

\* The goroutines sharing one CatPic, the pictures they store and the layout
\* context its Draw is given.
Threads == {"t1", "t2"}
PicImages == {NilImg, Img("png", 4, 3), Img("gif", 2, 2)}
PicGtx == Gtx(1, 1, 6, 7)

\* OpenDB calls over the life of the database file, the first included.
MaxOpens == 2

VARIABLES
    disk,       \* the committed tree of the database file
    openGens,   \* the bbolt handles that are open, by OpenDB generation
    gen,        \* OpenDB calls that opened the file so far
    store,      \* the generation of the *CatDB the callers hold
    mainPc,     \* the owner: "ready", "closed", "opening" or "failed"
    pc,         \* each process's position in its call
    kind,       \* the call: "add" (AddCatVersion) or "init" (InitDB)
    arg,        \* AddCatVersion's arguments (metadata, catData)
    hnd,        \* the generation of the handle the call runs on
    ver,        \* AddCatVersion's local versionId
    tx,         \* the tree of the process's write transaction
    ret,        \* what the call returned
    rpc,        \* the reader: "idle" or "reading"
    view,       \* the tree the reader's transaction reads
    serial,     \* the tree the committed calls produce run one after another
    half,       \* per finished call: the new Version its failure left half written
    atClose,    \* the committed tree when Close last returned
    written,    \* <<address, arguments>> of the last successful call per address
    begun,      \* per call: the write transactions it has begun
    rq,         \* the RequestRandomCat call in progress and its locals
    run,        \* Run: its position, its event e, the image handed to DrawImage
    currentImage, \* Run's local shared with its goroutines
    fetch,      \* the goroutines started by clicks
    win,        \* the window: events delivered, frames committed
    dr,         \* one call of CatPic.Draw: its arguments and its result
    pic,        \* a CatPic shared by goroutines: img, isLoading and the mutex
    thr,        \* each goroutine's call on the CatPic
    reg         \* the pair of registers the CatPic stands for

vars == <<disk, openGens, gen, store, mainPc, pc, kind, arg, hnd, ver, tx, ret,
          rpc, view, serial, half, atClose, written, begun, rq,
          run, currentImage, fetch, win, dr, pic, thr, reg>>

lifeVars == <<openGens, gen, store, mainPc>>
readVars == <<rpc, view>>
ghostVars == <<serial, half, atClose, written, begun>>
dbVars == <<disk, openGens, gen, store, mainPc, pc, kind, arg, hnd, ver, tx, ret,
            rpc, view, serial, half, atClose, written, begun>>
loopVars == <<run, currentImage, fetch, win>>
picVars == <<pic, thr, reg>>
drawVars == <<dr, picVars>>
uiVars == <<rq, loopVars, drawVars>>

NoSlot == <<"", "">>
NoRet == [catId |-> "", versionId |-> "", err |-> "-"]
Ret(id, v, e) == [catId |-> id, versionId |-> v, err |-> e]

\* Faulty variant: the two ids returned in the wrong order.
ReturnSwapped(catId, versionId) == Ret(versionId, catId, NoErr)

\* return catId, versionId, nil
ReturnOk(catId, versionId) == Ret(catId, versionId, NoErr)

\* The file after the first OpenDB: InitDB has created the top-level bucket.
InitialTree == Bucket([k \in {bucketCats} |-> EmptyBucket])

Init ==
    /\ disk = InitialTree
    /\ openGens = {1}
    /\ gen = 1
    /\ store = 1
    /\ mainPc = "ready"
    /\ pc = [p \in Procs |-> "idle"]
    /\ kind = [p \in Procs |-> "add"]
    /\ arg = [p \in Procs |-> NoInput]
    /\ hnd = [p \in Procs |-> 1]
    /\ ver = [p \in Procs |-> ""]
    /\ tx = [p \in Procs |-> EmptyBucket]
    /\ ret = [p \in Procs |-> NoRet]
    /\ rpc = "idle"
    /\ view = EmptyBucket
    /\ serial = InitialTree
    /\ half = [p \in Procs |-> NoSlot]
    /\ atClose = EmptyBucket
    /\ written = {}
    /\ begun = [p \in Procs |-> 0]
    /\ rq = RqIdle
    /\ run = RunStart
    /\ currentImage = NilImg
    /\ fetch = [g \in Fetchers |-> FetchFree]
    /\ win = WinStart
    /\ dr = DrIdle
    /\ pic = NoPic
    /\ thr = [t \in Threads |-> ThrIdle]
    /\ reg = RegStart(NilImg)

\* A call of Draw about to be made, on any picture and layout context.
InitDraw ==
    /\ disk = InitialTree
    /\ openGens = {1}
    /\ gen = 1
    /\ store = 1
    /\ mainPc = "ready"
    /\ pc = [p \in Procs |-> "idle"]
    /\ kind = [p \in Procs |-> "add"]
    /\ arg = [p \in Procs |-> NoInput]
    /\ hnd = [p \in Procs |-> 1]
    /\ ver = [p \in Procs |-> ""]
    /\ tx = [p \in Procs |-> EmptyBucket]
    /\ ret = [p \in Procs |-> NoRet]
    /\ rpc = "idle"
    /\ view = EmptyBucket
    /\ serial = InitialTree
    /\ half = [p \in Procs |-> NoSlot]
    /\ atClose = EmptyBucket
    /\ written = {}
    /\ begun = [p \in Procs |-> 0]
    /\ rq = RqIdle
    /\ run = RunStart
    /\ currentImage = NilImg
    /\ fetch = [g \in Fetchers |-> FetchFree]
    /\ win = WinStart
    /\ dr \in {[DrIdle EXCEPT !.pc = "call", !.img = i, !.gtx = g] :
                  i \in DrawImages, g \in {c \in DrawContexts : c.minW <= c.maxW /\ c.minH <= c.maxH}}
    /\ pic = NoPic
    /\ thr = [t \in Threads |-> ThrIdle]
    /\ reg = RegStart(NilImg)

\* A database file that does not exist yet, before the first OpenDB.
InitFile ==
    /\ disk = EmptyBucket
    /\ openGens = {}
    /\ gen = 0
    /\ store = 0
    /\ mainPc = "closed"
    /\ pc = [p \in Procs |-> "idle"]
    /\ kind = [p \in Procs |-> "add"]
    /\ arg = [p \in Procs |-> NoInput]
    /\ hnd = [p \in Procs |-> 0]
    /\ ver = [p \in Procs |-> ""]
    /\ tx = [p \in Procs |-> EmptyBucket]
    /\ ret = [p \in Procs |-> NoRet]
    /\ rpc = "idle"
    /\ view = EmptyBucket
    /\ serial = EmptyBucket
    /\ half = [p \in Procs |-> NoSlot]
    /\ atClose = EmptyBucket
    /\ written = {}
    /\ begun = [p \in Procs |-> 0]
    /\ rq = RqIdle
    /\ run = RunStart
    /\ currentImage = NilImg
    /\ fetch = [g \in Fetchers |-> FetchFree]
    /\ win = WinStart
    /\ dr = DrIdle
    /\ pic = NoPic
    /\ thr = [t \in Threads |-> ThrIdle]
    /\ reg = RegStart(NilImg)

\* Positions inside db.Update's transaction function, and inside db.Update.
InFn(p) == pc[p] = "init" \/ \E i \in 1..Len(TxSteps) : TxSteps[i] = pc[p]
InTx(p) == InFn(p) \/ pc[p] = "commit"

\* Faulty variant: writes that do not take the writer lock.
NoWriterLock(p) == TRUE

\* Faulty variant: a transaction that failed keeps the writer lock while its
\* caller holds the error.
WriterLockKeptOnError(p) ==
    \A q \in Procs \ {p} : ~InTx(q) /\ ~(pc[q] = "done" /\ ret[q].err # NoErr)

\* db.Update begins a read-write transaction: it takes the database's writer
\* lock, which one transaction holds from its begin to its commit or rollback.
WriterLockFree(p) == \A q \in Procs \ {p} : ~InTx(q)

\* Faulty variant: the writes of a failed transaction stay in the file.
RollbackKeepsDirty(committed, dirty) == dirty

\* What the file holds after a transaction ends: its tree when it commits,
\* the tree from before it when it rolls back.
CommitResult(committed, dirty) == dirty
RollbackResult(committed, dirty) == committed

\* Versions of the committed tree, as <<entity id, version id>> addresses.
Slots(root) ==
    IF ~HasBucket(root, bucketCats) THEN {}
    ELSE LET cats == root.kids[bucketCats]
         IN  UNION {{<<e, v>> : v \in DOMAIN cats.kids[e].kids} : e \in DOMAIN cats.kids}

VersionAt(root, slot) == GetAt(root, <<bucketCats, slot[1], slot[2]>>)

\* AddCatVersion(metadata, catData) is entered, on the *CatDB that the last
\* successful OpenDB returned.
Call(c, x) ==
    /\ store # 0
    /\ pc[c] = "idle"
    /\ pc' = [pc EXCEPT ![c] = "hash"]
    /\ kind' = [kind EXCEPT ![c] = "add"]
    /\ arg' = [arg EXCEPT ![c] = x]
    /\ hnd' = [hnd EXCEPT ![c] = store]
    /\ UNCHANGED <<disk, ver, tx, ret, lifeVars, readVars, uiVars, ghostVars>>

\* InitDB() is entered by a caller.
CallInitDB(c) ==
    /\ store # 0
    /\ pc[c] = "idle"
    /\ pc' = [pc EXCEPT ![c] = "begin"]
    /\ kind' = [kind EXCEPT ![c] = "init"]
    /\ hnd' = [hnd EXCEPT ![c] = store]
    /\ UNCHANGED <<disk, arg, ver, tx, ret, lifeVars, readVars, uiVars, ghostVars>>

\* Faulty variant: a hash seeded anew for every handle that is opened.
HashStepSeeded(c) ==
    /\ pc[c] = "hash"
    /\ pc' = [pc EXCEPT ![c] = "begin"]
    /\ ver' = [ver EXCEPT ![c] = hashURL(arg[c].md.URL) \o "-" \o ToString(hnd[c])]
    /\ UNCHANGED <<arg, ret, disk, kind, hnd, tx, lifeVars, readVars, uiVars, ghostVars>>

\* Faulty variant: a failed hashURL returns the entity id with the error.
HashStepKeepsId(c) ==
    /\ pc[c] = "hash"
    /\ \E failed \in BOOLEAN :
         IF failed
         THEN /\ pc' = [pc EXCEPT ![c] = "done"]
              /\ ret' = [ret EXCEPT ![c] = Ret(arg[c].md.ID, "", "hash write failed")]
              /\ arg' = [arg EXCEPT ![c] = NoInput]
              /\ ver' = ver
         ELSE /\ pc' = [pc EXCEPT ![c] = "begin"]
              /\ ver' = [ver EXCEPT ![c] = hashURL(arg[c].md.URL)]
              /\ UNCHANGED <<arg, ret>>
    /\ UNCHANGED <<disk, kind, hnd, tx, lifeVars, readVars, uiVars, ghostVars>>

\* versionId, err := hashURL(metadata.URL); an error returns at once.
HashStep(c) ==
    /\ pc[c] = "hash"
    /\ \E failed \in BOOLEAN :
         IF failed
         THEN /\ pc' = [pc EXCEPT ![c] = "done"]
              /\ ret' = [ret EXCEPT ![c] = Ret("", "", "hash write failed")]
              /\ arg' = [arg EXCEPT ![c] = NoInput]
              /\ ver' = ver
         ELSE /\ pc' = [pc EXCEPT ![c] = "begin"]
              /\ ver' = [ver EXCEPT ![c] = hashURL(arg[c].md.URL)]
              /\ UNCHANGED <<arg, ret>>
    /\ UNCHANGED <<disk, kind, hnd, tx, lifeVars, readVars, uiVars, ghostVars>>

\* Faulty variant: a transaction begins on a handle whether open or closed.
BeginOnAnyHandle(p) ==
    /\ pc[p] = "begin"
    /\ WriterLockFree(p)
    /\ pc' = [pc EXCEPT ![p] = IF kind[p] = "init" THEN "init" ELSE TxSteps[1]]
    /\ tx' = [tx EXCEPT ![p] = disk]
    /\ begun' = [begun EXCEPT ![p] = @ + 1]
    /\ UNCHANGED <<arg, ver, ret>>
    /\ UNCHANGED <<disk, kind, hnd, lifeVars, readVars, uiVars, serial, half, atClose, written>>

\* c.db.Update(...) begins: an error on a closed handle, else the writer lock
\* and a transaction on the committed tree.
Begin(p) ==
    /\ pc[p] = "begin"
    /\ IF hnd[p] \notin openGens
       THEN /\ pc' = [pc EXCEPT ![p] = "done"]
            /\ ret' = [ret EXCEPT ![p] = Ret("", "", "database not open")]
            /\ arg' = [arg EXCEPT ![p] = NoInput]
            /\ ver' = [ver EXCEPT ![p] = ""]
            /\ UNCHANGED <<tx, begun>>
       ELSE /\ WriterLockFree(p)
            /\ pc' = [pc EXCEPT ![p] = IF kind[p] = "init" THEN "init" ELSE TxSteps[1]]
            /\ tx' = [tx EXCEPT ![p] = disk]
            /\ begun' = [begun EXCEPT ![p] = @ + 1]
            /\ UNCHANGED <<arg, ver, ret>>
    /\ UNCHANGED <<disk, kind, hnd, lifeVars, readVars, uiVars, serial, half, atClose, written>>

\* The failing statements that leave a new Version half written in the
\* transaction: those after the metadata bucket's creation.
HalfWritten(p) ==
    /\ kind[p] = "add"
    /\ pc[p] \in {"putId", "putTags", "putCreatedAt", "putURL", "putMIMEType",
                  "data", "putData"}
    /\ <<arg[p].md.ID, ver[p]>> \notin Slots(disk)

\* Faulty variant: a failed transaction is attempted again.
RolledBackRetry(p, e) ==
    /\ disk' = RollbackResult(disk, tx[p])
    /\ pc' = [pc EXCEPT ![p] = "begin"]
    /\ tx' = [tx EXCEPT ![p] = EmptyBucket]
    /\ UNCHANGED <<arg, ver, ret, ghostVars>>

\* Faulty variant: db.Update's error is dropped and the ids are returned.
RolledBackSilent(p, e) ==
    /\ disk' = RollbackResult(disk, tx[p])
    /\ pc' = [pc EXCEPT ![p] = "done"]
    /\ tx' = [tx EXCEPT ![p] = EmptyBucket]
    /\ arg' = [arg EXCEPT ![p] = NoInput]
    /\ ver' = [ver EXCEPT ![p] = ""]
    /\ ret' = [ret EXCEPT ![p] = Ret(arg[p].md.ID, ver[p], NoErr)]
    /\ half' = [half EXCEPT ![p] = NoSlot]
    /\ UNCHANGED <<serial, atClose, written, begun>>

\* The transaction function returned err (or the commit failed): db.Update
\* rolls the transaction back and the call returns "", "", err.
RolledBack(p, e) ==
    /\ disk' = RollbackResult(disk, tx[p])
    /\ pc' = [pc EXCEPT ![p] = "done"]
    /\ tx' = [tx EXCEPT ![p] = EmptyBucket]
    /\ arg' = [arg EXCEPT ![p] = NoInput]
    /\ ver' = [ver EXCEPT ![p] = ""]
    /\ ret' = [ret EXCEPT ![p] = Ret("", "", e)]
    /\ half' = [half EXCEPT ![p] = IF HalfWritten(p) THEN <<arg[p].md.ID, ver[p]>>
                                   ELSE NoSlot]
    /\ UNCHANGED <<serial, atClose, written, begun>>

\* One statement of the transaction function.  The engine may fail any
\* call (a value over the size limit, a closed transaction).
TxStep(p) ==
    /\ InFn(p)
    /\ \E failed \in BOOLEAN :
         LET r == IF failed THEN [err |-> "engine error at " \o pc[p], root |-> tx[p]]
                  ELSE IF kind[p] = "init" THEN StepInit(tx[p])
                  ELSE StepEffect(pc[p], tx[p], arg[p], ver[p])
         IN  IF r.err # NoErr
             THEN RolledBack(p, r.err)
             ELSE /\ tx' = [tx EXCEPT ![p] = r.root]
                  /\ pc' = [pc EXCEPT ![p] = IF kind[p] = "init" THEN "commit"
                                             ELSE NextStep(pc[p])]
                  /\ UNCHANGED <<disk, arg, ver, ret, ghostVars>>
    /\ UNCHANGED <<kind, hnd, lifeVars, readVars, uiVars>>

\* The transaction function returned nil: db.Update commits, and
\* AddCatVersion returns catId, versionId, nil.
Commit(p) ==
    /\ pc[p] = "commit"
    /\ \E failed \in BOOLEAN :
         IF failed
         THEN RolledBack(p, "commit failed")
         ELSE /\ disk' = CommitResult(disk, tx[p])
              /\ pc' = [pc EXCEPT ![p] = "done"]
              /\ tx' = [tx EXCEPT ![p] = EmptyBucket]
              /\ arg' = [arg EXCEPT ![p] = NoInput]
              /\ ver' = [ver EXCEPT ![p] = ""]
              /\ ret' = [ret EXCEPT ![p] =
                            IF kind[p] = "init" THEN Ret("", "", NoErr)
                            ELSE ReturnOk(arg[p].md.ID, ver[p])]
              /\ serial' = IF kind[p] = "init" THEN StepInit(serial).root
                           ELSE SequentialAdd(serial, arg[p])
              /\ written' = IF kind[p] = "init" THEN written
                            ELSE {w \in written : w[1] # <<arg[p].md.ID, ver[p]>>}
                                    \cup {<<(<<arg[p].md.ID, ver[p]>>), arg[p]>>}
              /\ UNCHANGED <<half, atClose, begun>>
    /\ UNCHANGED <<kind, hnd, lifeVars, readVars, uiVars>>

\* The caller has its result and is free to call again.
Return(c) ==
    /\ pc[c] = "done"
    /\ pc' = [pc EXCEPT ![c] = "idle"]
    /\ kind' = [kind EXCEPT ![c] = "add"]
    /\ ret' = [ret EXCEPT ![c] = NoRet]
    /\ half' = [half EXCEPT ![c] = NoSlot]
    /\ begun' = [begun EXCEPT ![c] = 0]
    /\ UNCHANGED <<disk, arg, hnd, ver, tx, serial, atClose, written, lifeVars, readVars, uiVars>>

\* Faulty variant: closing drops the Entities of the file.
CloseTruncates ==
    /\ mainPc = "ready"
    /\ \A p \in Procs : ~InTx(p)
    /\ rpc = "idle"
    /\ openGens' = openGens \ {store}
    /\ mainPc' = "closed"
    /\ disk' = InitialTree
    /\ atClose' = disk
    /\ UNCHANGED <<gen, store, pc, kind, arg, hnd, ver, tx, ret, readVars, uiVars, serial, half,
                   written, begun>>

\* Close(): c.db.Close() waits for the open transactions, then releases the
\* handle and the file.
Close ==
    /\ mainPc = "ready"
    /\ \A p \in Procs : ~InTx(p)
    /\ rpc = "idle"
    /\ openGens' = openGens \ {store}
    /\ mainPc' = "closed"
    /\ atClose' = disk
    /\ UNCHANGED <<disk, gen, store, pc, kind, arg, hnd, ver, tx, ret, readVars, uiVars, serial, half,
                   written, begun>>

\* OpenDB(path): bbolt.Open takes the file (it waits while another handle
\* holds the file's lock), then cdb.InitDB() runs on the new handle.
OpenDB ==
    /\ mainPc \in {"closed", "failed"}
    /\ gen < MaxOpens
    /\ openGens = {}
    /\ gen' = gen + 1
    /\ openGens' = {gen + 1}
    /\ mainPc' = "opening"
    /\ pc' = [pc EXCEPT ![Main] = "begin"]
    /\ kind' = [kind EXCEPT ![Main] = "init"]
    /\ hnd' = [hnd EXCEPT ![Main] = gen + 1]
    /\ UNCHANGED <<disk, store, arg, ver, tx, ret, readVars, uiVars, ghostVars>>

\* OpenDB returns: the store when InitDB returned nil, else nil and the
\* error, with the handle left as it is.
OpenDBReturn ==
    /\ mainPc = "opening"
    /\ pc[Main] = "done"
    /\ IF ret[Main].err = NoErr
       THEN mainPc' = "ready" /\ store' = gen
       ELSE mainPc' = "failed" /\ store' = store
    /\ pc' = [pc EXCEPT ![Main] = "idle"]
    /\ kind' = [kind EXCEPT ![Main] = "add"]
    /\ ret' = [ret EXCEPT ![Main] = NoRet]
    /\ half' = [half EXCEPT ![Main] = NoSlot]
    /\ begun' = [begun EXCEPT ![Main] = 0]
    /\ UNCHANGED <<disk, openGens, gen, arg, hnd, ver, tx, serial, atClose, written, readVars, uiVars>>

\* A read transaction begins on the open handle: it reads the tree that is
\* committed at that moment, until it ends.
ReadBegin ==
    /\ rpc = "idle"
    /\ openGens # {}
    /\ rpc' = "reading"
    /\ view' = disk
    /\ UNCHANGED <<disk, pc, kind, arg, hnd, ver, tx, ret, lifeVars, ghostVars, uiVars>>

ReadEnd ==
    /\ rpc = "reading"
    /\ rpc' = "idle"
    /\ view' = EmptyBucket
    /\ UNCHANGED <<disk, pc, kind, arg, hnd, ver, tx, ret, lifeVars, ghostVars, uiVars>>

\* The steps of one caller's AddCatVersion and InitDB calls.
CallerNext(c) ==
    \/ \E x \in Inputs : Call(c, x)
    \/ CallInitDB(c)
    \/ HashStep(c)
    \/ Begin(c)
    \/ TxStep(c)
    \/ Commit(c)
    \/ Return(c)

\* Callers on one open store.
Next == \E c \in Callers : CallerNext(c)

Spec == Init /\ [][Next]_vars

\* Each goroutine is scheduled again and again, and the engine's writer lock
\* (a sync.Mutex) is granted to every waiter in turn.
Fairness ==
    \A c \in Callers :
        /\ WF_vars(HashStep(c) \/ TxStep(c) \/ Commit(c))
        /\ SF_vars(Begin(c))

\* The arguments of the contending callers: one Version written again and
\* again, and the call that fails on its empty id.
ContendInputs == {In2, In6}

NextContend ==
    \E c \in Callers :
        \/ \E x \in ContendInputs : Call(c, x)
        \/ CallInitDB(c)
        \/ HashStep(c)
        \/ Begin(c)
        \/ TxStep(c)
        \/ Commit(c)
        \/ Return(c)

SpecFair == Init /\ [][NextContend]_vars /\ Fairness

\* One caller and a reader on one open store.
NextRead ==
    \/ CallerNext("w1")
    \/ ReadBegin
    \/ ReadEnd

SpecRead == Init /\ [][NextRead]_vars

\* One caller and the owner opening, closing and reopening the store, from
\* the first OpenDB on a new file.
NextLife ==
    \/ CallerNext("w1")
    \/ Close
    \/ OpenDB
    \/ Begin(Main)
    \/ TxStep(Main)
    \/ Commit(Main)
    \/ OpenDBReturn

SpecLife == InitFile /\ [][NextLife]_vars

\* ----------------------------------------------------- the fetch pipeline
\* Faulty variant: a format other than the announced one is an error.
ReturnOrMismatchError(img, meta, format) ==
    IF "image/" \o format = meta.MIMEType THEN Triple(img, MetaPtr(meta), NilErr)
    ELSE Triple(NilImg, NilMeta, "unexpected format")

\* mFormat := "image/" + format; both outcomes of the comparison with
\* meta.MIMEType only log; return img, &meta, nil.
ReturnDecoded(img, meta, format) == Triple(img, MetaPtr(meta), NilErr)

\* Faulty variant: the metadata decoded so far is returned with the error.
ReturnErrKeepsMeta(e) == Triple(NilImg, MetaPtr(rq.meta), e)

\* The address NewCatURL().AsJSON().Generate() builds.
reqURL == "https://cataas.com/cat?json=true"

\* return nil, nil, err
ReturnErr(e) == Triple(NilImg, NilMeta, e)

RequestFails(e) ==
    rq' = [rq EXCEPT !.pc = "returned", !.ret = ReturnErr(e)]

\* ui.HandleButtonClick calls api.RequestRandomCat; its caller still holds
\* what the call before returned.
HandleButtonClickCall ==
    /\ rq.pc \in {"idle", "done"}
    /\ rq' = [RqIdle EXCEPT !.pc = "generate", !.out = rq.out]
    /\ UNCHANGED <<dbVars, loopVars, drawVars>>

\* reqURL, err := NewCatURL().AsJSON().Generate()
GenerateURL ==
    /\ rq.pc = "generate"
    /\ \E ok \in BOOLEAN :
         IF ok THEN rq' = [rq EXCEPT !.pc = "newRequest"] ELSE RequestFails("invalid url")
    /\ UNCHANGED <<dbVars, loopVars, drawVars>>

\* req, err := http.NewRequest(http.MethodGet, reqURL, bodyReader)
NewRequest ==
    /\ rq.pc = "newRequest"
    /\ \E ok \in BOOLEAN :
         IF ok THEN rq' = [rq EXCEPT !.pc = "do"] ELSE RequestFails("invalid request")
    /\ UNCHANGED <<dbVars, loopVars, drawVars>>

\* resp, err := client.Do(req): an error (the timeout among them) or a body.
ClientDo ==
    /\ rq.pc = "do"
    /\ \/ \E reached \in BOOLEAN :
              rq' = [rq EXCEPT !.pc = "returned",
                               !.ret = ReturnErr("Client.Timeout exceeded"),
                               !.sent = IF reached THEN Append(@, reqURL) ELSE @]
       \/ \E b \in MetaBodies :
              rq' = [rq EXCEPT !.pc = "decodeJSON", !.body = b,
                               !.sent = Append(@, reqURL),
                               !.bodies = @ \cup {"meta"}, !.open = @ \cup {"meta"}]
    /\ UNCHANGED <<dbVars, loopVars, drawVars>>

\* err = json.NewDecoder(resp.Body).Decode(&meta)
DecodeMeta ==
    /\ rq.pc = "decodeJSON"
    /\ LET r == jsonDecode(rq.body)
       IN  IF r.err # NilErr THEN RequestFails(r.err)
           ELSE rq' = [rq EXCEPT !.pc = "get", !.meta = r.meta]
    /\ UNCHANGED <<dbVars, loopVars, drawVars>>

\* Faulty variant: the picture is asked of the metadata address again.
HttpGetSameURL ==
    /\ rq.pc = "get"
    /\ \E ok \in BOOLEAN :
         IF ok THEN rq' = [rq EXCEPT !.pc = "readAll", !.sent = Append(@, reqURL),
                                     !.bodies = @ \cup {"image"},
                                     !.open = @ \cup {"image"}]
         ELSE rq' = [rq EXCEPT !.pc = "returned", !.ret = ReturnErr("connection refused"),
                               !.sent = Append(@, reqURL)]
    /\ UNCHANGED <<dbVars, loopVars, drawVars>>

\* imgResp, err := http.Get(meta.URL): an empty URL has no scheme and nothing
\* is sent; otherwise the request goes to meta.URL and is answered or fails.
HttpGet ==
    /\ rq.pc = "get"
    /\ IF rq.meta.URL = "" THEN RequestFails("unsupported protocol scheme")
       ELSE \E ok \in BOOLEAN :
                IF ok THEN rq' = [rq EXCEPT !.pc = "readAll",
                                            !.sent = Append(@, rq.meta.URL),
                                            !.bodies = @ \cup {"image"},
                                            !.open = @ \cup {"image"}]
                ELSE rq' = [rq EXCEPT !.pc = "returned",
                                      !.ret = ReturnErr("connection refused"),
                                      !.sent = Append(@, rq.meta.URL)]
    /\ UNCHANGED <<dbVars, loopVars, drawVars>>

\* respBody, err := io.ReadAll(imgResp.Body)
ReadAll ==
    /\ rq.pc = "readAll"
    /\ \/ RequestFails("unexpected EOF reading body")
       \/ \E b \in ImageBodies : rq' = [rq EXCEPT !.pc = "decode", !.respBody = b]
    /\ UNCHANGED <<dbVars, loopVars, drawVars>>

\* img, format, err := image.Decode(bytes.NewReader(respBody))
DecodeImage ==
    /\ rq.pc = "decode"
    /\ LET r == imageDecode(rq.respBody)
       IN  IF r.err # NilErr THEN RequestFails(r.err)
           ELSE rq' = [rq EXCEPT !.pc = "compare", !.img = r.img, !.format = r.format]
    /\ UNCHANGED <<dbVars, loopVars, drawVars>>

\* The comparison of the formats and the return of RequestRandomCat.
CompareAndReturn ==
    /\ rq.pc = "compare"
    /\ rq' = [rq EXCEPT !.pc = "returned", !.ret = ReturnDecoded(rq.img, rq.meta, rq.format)]
    /\ UNCHANGED <<dbVars, loopVars, drawVars>>

\* Faulty variant: the error of the Close becomes the error of the call.
AfterCloseMasked(res, failed) ==
    IF failed THEN Triple(NilImg, NilMeta, "close failed") ELSE res

\* The deferred func(body io.ReadCloser): err := body.Close(), and the error
\* is dropped or logged; the results of the return statement stay.
AfterClose(res, failed) == res

\* defer func(Body io.ReadCloser) {...}(imgResp.Body): deferred last, run first.
DeferImageClose ==
    /\ rq.pc = "returned"
    /\ "image" \in rq.open
    /\ \E failed \in BOOLEAN :
         rq' = [rq EXCEPT !.open = @ \ {"image"},
                          !.closeErrs = IF failed THEN @ \cup {"image"} ELSE @,
                          !.ret = AfterClose(@, failed)]
    /\ UNCHANGED <<dbVars, loopVars, drawVars>>

\* defer func(body io.ReadCloser) {...}(resp.Body)
DeferMetaClose ==
    /\ rq.pc = "returned"
    /\ "image" \notin rq.open
    /\ "meta" \in rq.open
    /\ \E failed \in BOOLEAN :
         rq' = [rq EXCEPT !.open = @ \ {"meta"},
                          !.closeErrs = IF failed THEN @ \cup {"meta"} ELSE @,
                          !.ret = AfterClose(@, failed)]
    /\ UNCHANGED <<dbVars, loopVars, drawVars>>

\* ui.HandleButtonClick: on an error it logs and returns nil, nil, err, else
\* it returns img, md, nil.
HandleButtonClick(r) ==
    IF r.err # NilErr THEN Triple(NilImg, NilMeta, r.err) ELSE Triple(r.img, r.meta, NilErr)

HandleButtonClickReturn ==
    /\ rq.pc = "returned"
    /\ rq.open = {}
    /\ rq' = [rq EXCEPT !.pc = "done", !.out = HandleButtonClick(rq.ret)]
    /\ UNCHANGED <<dbVars, loopVars, drawVars>>

NextFetch ==
    \/ HandleButtonClickCall
    \/ GenerateURL
    \/ NewRequest
    \/ ClientDo
    \/ DecodeMeta
    \/ HttpGet
    \/ ReadAll
    \/ DecodeImage
    \/ CompareAndReturn
    \/ DeferImageClose
    \/ DeferMetaClose
    \/ HandleButtonClickReturn

SpecFetch == Init /\ [][NextFetch]_vars

\* --------------------------------------------------------- the event loop
\* Faulty variant: an event that is neither a frame nor the destruction of
\* the window ends the loop.
OnEventOtherEnds(e) ==
    CASE e.type = "destroy" -> [run EXCEPT !.pc = "returned", !.e = e, !.err = e.err]
      [] e.type = "frame" -> [run EXCEPT !.pc = "clicked", !.e = e]
      [] OTHER -> [run EXCEPT !.pc = "returned", !.e = e, !.err = NilErr]

\* switch e := w.Event().(type): a DestroyEvent returns e.Err, a FrameEvent
\* enters the frame's case, an event of another type matches no case and the
\* loop takes the next event.
OnEvent(e) ==
    CASE e.type = "destroy" -> [run EXCEPT !.pc = "returned", !.e = e, !.err = e.err]
      [] e.type = "frame" -> [run EXCEPT !.pc = "clicked", !.e = e]
      [] OTHER -> [run EXCEPT !.e = e]

\* w.Event() delivers the next event; a frame the window delivers answers
\* the invalidation that was pending.
RunEvent ==
    /\ run.pc = "event"
    /\ win.received < MaxEvents
    /\ \E e \in Events :
         /\ run' = OnEvent(e)
         /\ win' = [win EXCEPT !.received = @ + 1,
                               !.frames = IF e.type = "frame" THEN @ + 1 ELSE @,
                               !.invalidated = IF e.type = "frame" THEN FALSE ELSE @]
    /\ UNCHANGED <<dbVars, rq, currentImage, fetch, drawVars>>

\* if fetchButton.Clicked(gtx) { go func() { ... }() }
RunClicked ==
    /\ run.pc = "clicked"
    /\ \E clicked \in BOOLEAN :
         IF clicked
         THEN \E g \in Fetchers :
                  /\ fetch[g].pc = "free"
                  /\ fetch' = [fetch EXCEPT ![g] = [FetchFree EXCEPT !.pc = "call"]]
         ELSE UNCHANGED fetch
    /\ run' = [run EXCEPT !.pc = "layout", !.drawn = NilImg]
    /\ UNCHANGED <<dbVars, rq, currentImage, win, drawVars>>

\* if currentImage == nil { return layout.Dimensions{Size: gtx.Constraints.Min} }
RunLayout ==
    /\ run.pc = "layout"
    /\ run' = [run EXCEPT !.pc = IF currentImage.nil THEN "frame" ELSE "draw"]
    /\ UNCHANGED <<dbVars, rq, currentImage, fetch, win, drawVars>>

\* The images a goroutine can assign, and a value read between the two
\* stores of an assignment: the type of one image with the data of another
\* (or with no data).
DecodedImages == {imageDecode(b).img : b \in CatBodies} \ {NilImg}
Torn(v) == ~v.nil /\ v \notin DecodedImages

\* return DrawImage(gtx, currentImage): the value is read again, with no
\* lock; DrawImage on a torn value dereferences what the data word holds,
\* which panics or goes on with a wrong picture.
RunDraw ==
    /\ run.pc = "draw"
    /\ \E panics \in IF Torn(currentImage) THEN BOOLEAN ELSE {FALSE} :
         run' = [run EXCEPT !.pc = IF panics THEN "panicked" ELSE "frame",
                            !.drawn = currentImage]
    /\ UNCHANGED <<dbVars, rq, currentImage, fetch, win, drawVars>>

\* e.Frame(gtx.Ops)
RunFrame ==
    /\ run.pc = "frame"
    /\ run' = [run EXCEPT !.pc = "event"]
    /\ win' = [win EXCEPT !.committed = @ + 1]
    /\ UNCHANGED <<dbVars, rq, currentImage, fetch, drawVars>>

\* handlers.HandleButtonClick: data, err := api.RequestCat(30 * time.Second)
GoRequestCat(g) ==
    /\ fetch[g].pc = "call"
    /\ \/ fetch' = [fetch EXCEPT ![g] = [@ EXCEPT !.pc = "result",
                                                  !.err = "Client.Timeout exceeded"]]
       \/ \E b \in CatBodies :
              fetch' = [fetch EXCEPT ![g] = [@ EXCEPT !.pc = "decode", !.data = b]]
    /\ UNCHANGED <<dbVars, rq, run, currentImage, win, drawVars>>

\* handlers.HandleButtonClick: img, _, err := image.Decode(bytes.NewReader(data))
GoDecode(g) ==
    /\ fetch[g].pc = "decode"
    /\ LET r == imageDecode(fetch[g].data)
       IN  fetch' = [fetch EXCEPT ![g] = [@ EXCEPT !.pc = "result", !.data = <<>>,
                                                  !.img = r.img, !.err = r.err]]
    /\ UNCHANGED <<dbVars, rq, run, currentImage, win, drawVars>>

\* if err != nil { log.Printf(...) } else { currentImage = img }: the error
\* ends the goroutine; the assignment stores the first of the two words of
\* the interface value, in the order the build chose.
GoResult(g) ==
    /\ fetch[g].pc = "result"
    /\ IF fetch[g].err # NilErr
       THEN /\ fetch' = [fetch EXCEPT ![g] = FetchFree]
            /\ UNCHANGED currentImage
       ELSE \E word \in ImgWords :
                /\ currentImage' = StoreWord(currentImage, fetch[g].img, word)
                /\ fetch' = [fetch EXCEPT ![g] = [@ EXCEPT !.pc = "store",
                                     !.word = CHOOSE o \in ImgWords : o # word]]
    /\ UNCHANGED <<dbVars, rq, run, win, drawVars>>

\* The second word of `currentImage = img`; the goroutine ends.
GoStore(g) ==
    /\ fetch[g].pc = "store"
    /\ currentImage' = StoreWord(currentImage, fetch[g].img, fetch[g].word)
    /\ fetch' = [fetch EXCEPT ![g] = FetchFree]
    /\ UNCHANGED <<dbVars, rq, run, win, drawVars>>

NextLoop ==
    \/ RunEvent
    \/ RunClicked
    \/ RunLayout
    \/ RunDraw
    \/ RunFrame
    \/ \E g \in Fetchers : GoRequestCat(g) \/ GoDecode(g) \/ GoResult(g) \/ GoStore(g)

SpecLoop == Init /\ [][NextLoop]_vars

\* ------------------------------------------------------------------ Draw
DrawCall ==
    /\ dr.pc = "call"
    /\ LET r == Draw(dr.img, dr.gtx)
       IN  dr' = [dr EXCEPT !.pc = "done", !.dims = r.dims, !.painted = r.painted]
    /\ UNCHANGED <<dbVars, rq, loopVars, picVars>>

NextDraw == DrawCall

SpecDraw == InitDraw /\ [][NextDraw]_vars

\* ------------------------------------------------- CatPic and its mutex
\* Another goroutine is inside a call that writes the register w.
OthersWrite(t, w) ==
    \E u \in Threads \ {t} : thr[u].pc # "idle" /\ Writes(thr[u].op) = w

\* NewCatImage(img)
NewCatImageCall ==
    /\ ~pic.made
    /\ \E i \in PicImages : pic' = NewCatImage(i) /\ reg' = RegStart(i)
    /\ UNCHANGED <<dbVars, rq, loopVars, dr, thr>>

\* A goroutine calls a method. A write that starts makes the register's
\* value uncertain for as long as it is in progress, and every write of the
\* same register in progress is no longer alone.
MethodCall(t, op, a) ==
    /\ pic.made
    /\ thr[t].pc = "idle"
    /\ thr' = [u \in Threads |->
                 IF u = t
                 THEN [ThrIdle EXCEPT !.pc = "lock", !.op = op, !.a = a,
                                      !.alone = Writes(op) # "" /\ ~OthersWrite(t, Writes(op))]
                 ELSE IF Writes(op) # "" /\ thr[u].pc # "idle" /\ Writes(thr[u].op) = Writes(op)
                      THEN [thr[u] EXCEPT !.alone = FALSE]
                      ELSE thr[u]]
    /\ reg' = CASE Writes(op) = "img" -> [reg EXCEPT !.imgKnown = FALSE]
                [] Writes(op) = "loading" -> [reg EXCEPT !.loadingKnown = FALSE]
                [] OTHER -> reg
    /\ UNCHANGED <<dbVars, rq, loopVars, dr, pic>>

\* A goroutine calls Draw, whose first statement is img := p.GetImage().
DrawEnter(t) ==
    /\ pic.made
    /\ thr[t].pc = "idle"
    /\ thr' = [thr EXCEPT ![t] = [ThrIdle EXCEPT !.pc = "lock", !.op = "GetImage",
                                                 !.inDraw = TRUE]]
    /\ UNCHANGED <<dbVars, rq, loopVars, dr, pic, reg>>

\* p.mu.Lock(): blocks while another goroutine holds the mutex.
Lock(t) ==
    /\ thr[t].pc = "lock"
    /\ pic.mu = Unlocked
    /\ pic' = [pic EXCEPT !.mu = t]
    /\ thr' = [thr EXCEPT ![t].pc = "body"]
    /\ UNCHANGED <<dbVars, rq, loopVars, dr, reg>>

\* The statement between Lock and the deferred Unlock.
Body(t) ==
    /\ thr[t].pc = "body"
    /\ LET r == MethodBody(thr[t].op, pic, thr[t].a)
       IN  /\ pic' = r.p
           /\ thr' = [thr EXCEPT ![t] = [@ EXCEPT !.pc = "unlock", !.res = r.res,
                                                  !.lin = RegRead(thr[t].op, reg)]]
    /\ reg' = RegApply(thr[t].op, thr[t].a, reg)
    /\ UNCHANGED <<dbVars, rq, loopVars, dr>>

\* defer p.mu.Unlock()
Unlock(t) ==
    /\ thr[t].pc = "unlock"
    /\ pic' = [pic EXCEPT !.mu = Unlocked]
    /\ thr' = [thr EXCEPT ![t].pc = "ret"]
    /\ UNCHANGED <<dbVars, rq, loopVars, dr, reg>>

\* The method returns to its caller, which is Draw or the goroutine. A write
\* that was alone and is the last one in progress makes the register's value
\* certain again.
MethodReturn(t) ==
    /\ thr[t].pc = "ret"
    /\ thr' = [thr EXCEPT ![t] = IF thr[t].inDraw THEN [@ EXCEPT !.pc = "draw"]
                                  ELSE [ThrIdle EXCEPT !.out = thr[t].res]]
    /\ reg' = LET w == Writes(thr[t].op)
                  known == thr[t].alone /\ ~OthersWrite(t, w)
              IN  CASE w = "img" ->
                           [reg EXCEPT !.lastImg = thr[t].a, !.imgKnown = known]
                    [] w = "loading" ->
                           [reg EXCEPT !.lastLoading = (thr[t].op = "SetLoading"),
                                       !.loadingKnown = known]
                    [] OTHER -> reg
    /\ UNCHANGED <<dbVars, rq, loopVars, dr, pic>>

\* The rest of Draw, on the image GetImage returned, without the mutex.
DrawRest(t) ==
    /\ thr[t].pc = "draw"
    /\ thr' = [thr EXCEPT ![t] = [ThrIdle EXCEPT !.dims = Draw(thr[t].res.img, PicGtx).dims]]
    /\ UNCHANGED <<dbVars, rq, loopVars, dr, pic, reg>>

NextPic ==
    \/ NewCatImageCall
    \/ \E t \in Threads :
          \/ \E op \in Methods : \E a \in IF op = "SetImage" THEN PicImages ELSE {NilImg} :
                 MethodCall(t, op, a)
          \/ DrawEnter(t)
          \/ Lock(t)
          \/ Body(t)
          \/ Unlock(t)
          \/ MethodReturn(t)
          \/ DrawRest(t)

SpecPic == Init /\ [][NextPic]_vars

\* ====================================================== checked properties
\* The address a call with arguments x writes, and the Version the layout
\* holds there for x: the five metadata keys in serialized form and the payload.
SlotOf(x) == <<x.md.ID, hashURL(x.md.URL)>>

ReadsBack(root, slot, x) ==
    /\ ExistsAt(root, <<bucketCats, slot[1], slot[2], bucketMetadata>>)
    /\ ExistsAt(root, <<bucketCats, slot[1], slot[2], bucketData>>)
    /\ LET md == VersionAt(root, slot).kids[bucketMetadata]
           dt == VersionAt(root, slot).kids[bucketData]
       IN  /\ MetaKeys \subseteq DOMAIN md.kids
           /\ md.kids["cat_id"] = Value(x.md.ID)
           /\ md.kids["tags"] = Value(Join(x.md.Tags, ", "))
           /\ md.kids["created_at"] = Value(FormatRFC3339(x.md.CreatedAt))
           /\ md.kids["url"] = Value(x.md.URL)
           /\ md.kids["mime_type"] = Value(x.md.MIMEType)
           /\ HasKey(dt, "img_data")
           /\ dt.kids["img_data"] = Value(x.data)

\* The Version exactly as one call with x leaves it: nothing but those keys.
WrittenBy(root, slot, x) ==
    /\ ReadsBack(root, slot, x)
    /\ DOMAIN VersionAt(root, slot).kids = {bucketMetadata, bucketData}
    /\ DOMAIN VersionAt(root, slot).kids[bucketMetadata].kids = MetaKeys
    /\ DOMAIN VersionAt(root, slot).kids[bucketData].kids = {"img_data"}

\* p's AddCatVersion commits and returns nil in this step.
AddSucceeds(p) ==
    /\ kind[p] = "add"
    /\ pc[p] = "commit"
    /\ pc'[p] = "done"
    /\ ret'[p].err = NoErr

\* p's call returns an error in this step.
CallFails(p) ==
    /\ pc[p] # "done"
    /\ pc'[p] = "done"
    /\ ret'[p].err # NoErr

\* C1: when AddCatVersion(metadata, catData) returns success, the store at
\* cats/<metadata.ID>/<hashURL(metadata.URL)> holds cat_id, tags, created_at,
\* url and mime_type equal to the serialized input fields, and img_data equal
\* to the payload.
C1_RoundTrip ==
    [][\A p \in Callers : AddSucceeds(p) => ReadsBack(disk', SlotOf(arg[p]), arg[p])]_vars

\* The spec's scenario: c1 fetched from https://x/1.png with tags a, b.
C1_Witness ==
    \E c \in Callers :
        /\ pc[c] = "done"
        /\ ret[c] = Ret("c1", hashURL(URL1), NoErr)
        /\ ReadsBack(disk, <<"c1", hashURL(URL1)>>, In1)
        /\ VersionAt(disk, <<"c1", hashURL(URL1)>>).kids[bucketMetadata].kids["tags"].val = "a, b"

\* C2: a failure after the metadata bucket of a new Version was created and
\* before the payload is written leaves no Version at that address; no later
\* call is refused because of what the failed one left (the only errors are
\* injected engine errors, a closed handle and the empty entity id), and a
\* later call with the same ids stores the complete Version.
C2_NoResidue ==
    \A p \in Callers :
        /\ HalfWritten(p) => ExistsAt(tx[p], MetadataPath(arg[p], ver[p]))
        /\ ret[p].err \notin {"incompatible value", "panic: nil bucket"}
        /\ (pc[p] = "done" /\ ret[p].err = NoErr /\ ret[p].versionId # "")
              => \E x \in Inputs : WrittenBy(disk, <<ret[p].catId, ret[p].versionId>>, x)

C2_AtomicNewVersion ==
    /\ []C2_NoResidue
    /\ [][\A p \in Callers :
            (HalfWritten(p) /\ CallFails(p)) => SlotOf(arg[p]) \notin Slots(disk')]_vars

\* One caller's write of a new Version failed half way, and another caller's
\* call with the same ids has since stored it.
C2_Witness ==
    \E c, d \in Callers :
        /\ c # d
        /\ pc[c] = "done" /\ half[c] # NoSlot
        /\ pc[d] = "done" /\ ret[d].err = NoErr
        /\ <<ret[d].catId, ret[d].versionId>> = half[c]
        /\ \E x \in Inputs : WrittenBy(disk, half[c], x)

\* C3: whenever AddCatVersion returns an error, whichever step failed, the
\* committed tree is the one from before the call's transaction.
C3_FailureChangesNothing ==
    [][\A p \in Callers : CallFails(p) => disk' = disk]_vars

\* An overwrite failed at the payload put, and the Version is still the old one.
C3_Witness ==
    \E c \in Callers :
        /\ pc[c] = "done"
        /\ ret[c].err = "engine error at putData"
        /\ half[c] = NoSlot
        /\ WrittenBy(disk, SlotOf(In1), In1)
        /\ DOMAIN disk.kids[bucketCats].kids = {"c1"}

\* The Version namespaces of entity e.
VersionsOf(root, e) ==
    IF ExistsAt(root, <<bucketCats, e>>) THEN DOMAIN root.kids[bucketCats].kids[e].kids
    ELSE {}

\* The Version at x's address is the one a call with x left there.
Stored(root, x) == SlotOf(x) \in Slots(root) /\ WrittenBy(root, SlotOf(x), x)

\* C4 as stated: a second call with the same metadata.ID, metadata.URL and
\* payload as the call that wrote the Version leaves the Entity's Version
\* namespaces and the whole store as the first call left them.
C4_SameIdURLPayload ==
    [][\A p \in Callers : \A y \in Inputs :
          (/\ AddSucceeds(p)
           /\ y.md.ID = arg[p].md.ID /\ y.md.URL = arg[p].md.URL /\ y.data = arg[p].data
           /\ Stored(disk, y))
          => /\ VersionsOf(disk', y.md.ID) = VersionsOf(disk, y.md.ID)
             /\ disk' = disk]_vars

\* C4, amended: a second call with the same metadata record (every field) and
\* the same payload adds no Version namespace to the Entity and leaves the
\* store as the first call left it.
C4_Idempotent ==
    [][\A p \in Callers :
          (AddSucceeds(p) /\ Stored(disk, arg[p]))
          => /\ VersionsOf(disk', arg[p].md.ID) = VersionsOf(disk, arg[p].md.ID)
             /\ disk' = disk]_vars

\* Both callers have written entity c2 (one input has that id), one Version.
C4_Witness ==
    /\ \A c \in Callers : pc[c] = "done" /\ ret[c] = Ret("c2", hashURL(URL1), NoErr)
    /\ Stored(disk, In5)
    /\ VersionsOf(disk, "c2") = {hashURL(URL1)}

\* C5 as stated: after successful calls with the same metadata.ID and
\* different metadata.URL the Entity holds two distinct Version namespaces.
C5_DifferentURLs ==
    [][\A p \in Callers : \A y \in Inputs :
          (/\ AddSucceeds(p)
           /\ y.md.ID = arg[p].md.ID /\ y.md.URL # arg[p].md.URL
           /\ Stored(disk, y))
          => /\ SlotOf(y)[2] # SlotOf(arg[p])[2]
             /\ {SlotOf(y)[2], SlotOf(arg[p])[2]} \subseteq VersionsOf(disk', y.md.ID)]_vars

\* C5, amended: ... with different metadata.URL values whose version ids
\* differ, the Entity holds the two Version namespaces.
C5_DifferentVersionIds ==
    [][\A p \in Callers : \A y \in Inputs :
          (/\ AddSucceeds(p)
           /\ y.md.ID = arg[p].md.ID /\ y.md.URL # arg[p].md.URL
           /\ hashURL(y.md.URL) # hashURL(arg[p].md.URL)
           /\ Stored(disk, y))
          => {hashURL(y.md.URL), hashURL(arg[p].md.URL)} \subseteq VersionsOf(disk', y.md.ID)]_vars

C5_Witness ==
    /\ \E c \in Callers : pc[c] = "done" /\ ret[c] = Ret("c1", hashURL(URL2), NoErr)
    /\ Stored(disk, In1)
    /\ Stored(disk, In4)
    /\ VersionsOf(disk, "c1") = {hashURL(URL1), hashURL(URL2)}

\* C6: every Version namespace of the committed tree has both a metadata and
\* a data bucket, whatever calls succeeded or failed.
C6_MetadataAndData ==
    \A s \in Slots(disk) :
        HasBucket(VersionAt(disk, s), bucketMetadata) /\ HasBucket(VersionAt(disk, s), bucketData)

\* A write of a new Version failed half way beside committed Versions.
C6_Witness ==
    \E c \in Callers :
        /\ half[c] # NoSlot
        /\ half[c] \notin Slots(disk)
        /\ Slots(disk) # {}

\* C7: a read transaction sees every Version whole, as one call wrote it, and
\* what it sees does not change while a writer runs or commits.
C7_WholeVersions ==
    rpc = "reading" =>
        \A s \in Slots(view) : \E x \in Inputs : SlotOf(x) = s /\ WrittenBy(view, s, x)

C7_ReaderIsolation ==
    /\ []C7_WholeVersions
    /\ [][(rpc = "reading" /\ rpc' = "reading") => view' = view]_vars

\* The reader reads the old Version while an overwrite of it has put the new
\* metadata and not yet the payload.
C7_Witness ==
    /\ rpc = "reading"
    /\ Stored(view, In4)
    /\ pc["w1"] = "putData"
    /\ arg["w1"] = In7
    /\ ~ \E x \in Inputs : WrittenBy(tx["w1"], SlotOf(In7), x)

\* C8: at most one write transaction is active at any instant, among callers
\* of AddCatVersion and of InitDB.
C8_SingleWriter == Cardinality({p \in Procs : InTx(p)}) <= 1

\* An InitDB call waits to begin while an AddCatVersion transaction runs.
C8_Witness ==
    \E c, d \in Callers :
        /\ kind[c] = "add" /\ pc[c] = "putData"
        /\ kind[d] = "init" /\ pc[d] = "begin"

\* C9: the committed tree is the one the committed calls produce run one
\* after another in commit order, and every Version in it holds the metadata
\* and payload of one call.
C9_Serialized ==
    /\ disk = serial
    /\ \A s \in Slots(disk) : \E x \in Inputs : SlotOf(x) = s /\ WrittenBy(disk, s, x)

\* Two overlapping calls to different addresses have both returned.
C9_Witness ==
    /\ pc["w1"] = "done" /\ ret["w1"] = Ret("c1", hashURL(URL1), NoErr)
    /\ pc["w2"] = "done" /\ ret["w2"] = Ret("c1", hashURL(URL3), NoErr)
    /\ Slots(disk) = {<<"c1", hashURL(URL1)>>, <<"c1", hashURL(URL3)>>}

\* C10: on success AddCatVersion returns (metadata.ID, hashURL(metadata.URL)),
\* and a Version namespace exists at that address when it returns.
C10_ReturnedAddressExists ==
    \A c \in Callers :
        (pc[c] = "done" /\ kind[c] = "add" /\ ret[c].err = NoErr)
            => <<ret[c].catId, ret[c].versionId>> \in Slots(disk)

C10_ReturnsAddress ==
    /\ []C10_ReturnedAddressExists
    /\ [][\A p \in Callers :
            AddSucceeds(p) => /\ ret'[p] = Ret(arg[p].md.ID, hashURL(arg[p].md.URL), NoErr)
                              /\ SlotOf(arg[p]) \in Slots(disk')]_vars

C10_Witness ==
    \E c \in Callers :
        /\ pc[c] = "done"
        /\ ret[c] = Ret("c1", hashURL(URL3), NoErr)
        /\ <<"c1", hashURL(URL3)>> \in Slots(disk)

\* The url value stored in the Version at an address.
StoredURL(root, s) == VersionAt(root, s).kids[bucketMetadata].kids[dbKeyMetaURL].val

\* C11: the version id a call derives is the id under which any Version with
\* the same url is stored, in the committed tree and in the tree as it was at
\* the last Close; a successful call whose entity had a Version of that url
\* before the restart returns that Version's address and adds no Version.
C11_SameURLSameId ==
    \A p \in Callers :
        ver[p] # "" =>
            /\ \A s \in Slots(disk) : StoredURL(disk, s) = arg[p].md.URL => s[2] = ver[p]
            /\ \A s \in Slots(atClose) : StoredURL(atClose, s) = arg[p].md.URL => s[2] = ver[p]

C12_Layout ==
    \A s \in Slots(disk) :
        LET v == VersionAt(disk, s)
        IN  /\ v.isBucket
            /\ DOMAIN v.kids = {bucketMetadata, bucketData}
            /\ v.kids[bucketMetadata].isBucket
            /\ DOMAIN v.kids[bucketMetadata].kids = MetaKeys
            /\ \A k \in MetaKeys : ~v.kids[bucketMetadata].kids[k].isBucket
            /\ v.kids[bucketData].isBucket
            /\ DOMAIN v.kids[bucketData].kids = {dbKeyImgData}
            /\ ~v.kids[bucketData].kids[dbKeyImgData].isBucket

\* The Version written with tags a, b before the Close has been overwritten
\* with tag a on the reopened store, beside a Version of another Entity.
C12_Witness ==
    /\ store = 2
    /\ Stored(atClose, In1)
    /\ Stored(disk, In2)
    /\ Stored(disk, In5)

\* The cat_id value stored in the Version at an address.
StoredId(root, s) == VersionAt(root, s).kids[bucketMetadata].kids[dbKeyMetaId].val

\* C13: for every Version at cats/<e>/<v> of a committed tree, the stored
\* cat_id equals e and v equals hashURL of the stored url.
C13_Addressing ==
    \A s \in Slots(disk) :
        /\ StoredId(disk, s) = s[1]
        /\ StoredURL(disk, s) \in URLs
        /\ s[2] = hashURL(StoredURL(disk, s))

\* Two Entities hold a Version of the same url, and one of them a second
\* Version whose url shares its id with another url.
C13_Witness ==
    /\ Slots(disk) = {<<"c1", hashURL(URL1)>>, <<"c2", hashURL(URL1)>>, <<"c1", hashURL(URL3)>>}
    /\ StoredURL(disk, <<"c1", hashURL(URL3)>>) = URL3
    /\ hashURL(URL2) = hashURL(URL3)

\* C14: the committed tree is a map with overwrite: an address holds a
\* Version exactly when a successful call was addressed to it, and the Version
\* holds the metadata and payload of the last such call and nothing else.
C14_MapWithOverwrite ==
    /\ Slots(disk) = {w[1] : w \in written}
    /\ \A w \in written : w[1] = SlotOf(w[2]) /\ WrittenBy(disk, w[1], w[2])
    /\ \A w1, w2 \in written : w1[1] = w2[1] => w1 = w2

\* The address written with tags a, b before the Close was last written with
\* tag a on the reopened store, and a call with an empty id has failed.
C14_Witness ==
    /\ store = 2
    /\ Stored(atClose, In1)
    /\ <<SlotOf(In2), In2>> \in written
    /\ Cardinality(written) = 2
    /\ pc["w1"] = "done" /\ ret["w1"].err = "bucket name required"

\* C15: a successful AddCatVersion for (e, v) leaves every other Version as
\* it was: the other Versions of e and the Versions of every other Entity,
\* those with the same version id included.
C15_OtherVersionsUnchanged ==
    [][\A p \in Callers :
          AddSucceeds(p) =>
              \A s \in Slots(disk) \ {SlotOf(arg[p])} :
                  s \in Slots(disk') /\ VersionAt(disk', s) = VersionAt(disk, s)]_vars

\* The last call wrote c2's Version of https://x/1.png beside c1's Version of
\* the same url and version id and a second Version of c1.
C15_Witness ==
    /\ pc["w1"] = "done" /\ ret["w1"] = Ret("c2", hashURL(URL1), NoErr)
    /\ Stored(disk, In1)
    /\ Stored(disk, In4)
    /\ Stored(disk, In5)

\* The Entity namespaces of a tree.
Entities(root) ==
    IF HasBucket(root, bucketCats) THEN DOMAIN root.kids[bucketCats].kids ELSE {}

\* C16: the top-level namespace, every Entity namespace and every Version
\* namespace of a committed tree is in the committed tree after every step:
\* of successful and failed AddCatVersion and InitDB calls, Close and OpenDB.
C16_NothingRemoved ==
    [][/\ HasBucket(disk, bucketCats) => HasBucket(disk', bucketCats)
       /\ Entities(disk) \subseteq Entities(disk')
       /\ \A e \in Entities(disk) : HasBucket(disk'.kids[bucketCats], e)
       /\ Slots(disk) \subseteq Slots(disk')
       /\ \A s \in Slots(disk) : VersionAt(disk', s).isBucket]_vars

\* Two Entities written before the Close are there after the reopen and an
\* InitDB call on the reopened store.
C16_Witness ==
    /\ store = 2 /\ mainPc = "ready"
    /\ Entities(atClose) = {"c1", "c2"}
    /\ Slots(atClose) \subseteq Slots(disk)
    /\ pc["w1"] = "done" /\ kind["w1"] = "init" /\ hnd["w1"] = 2 /\ ret["w1"].err = NoErr

\* C17: once OpenDB has returned a store, the top-level cats bucket is in the
\* committed tree and in the tree of every AddCatVersion transaction, so
\* tx.Bucket("cats") is never nil and no call ends in the nil bucket's panic.
C17_TopLevelExists ==
    /\ store # 0 => HasBucket(disk, bucketCats)
    /\ \A p \in Callers :
          /\ (kind[p] = "add" /\ InTx(p)) => HasBucket(tx[p], bucketCats)
          /\ ret[p].err # "panic: nil bucket"

\* The first AddCatVersion on a new file has looked up the top-level bucket
\* and created its Entity bucket in it.
C17_Witness ==
    /\ store = 1 /\ gen = 1
    /\ disk = InitialTree
    /\ kind["w1"] = "add" /\ pc["w1"] = "version"
    /\ Entities(tx["w1"]) = {"c1"}

\* C18: when OpenDB has returned an error after bbolt.Open succeeded (InitDB
\* failed), the handle it opened is closed: no handle is open and the file's
\* lock is free.
C18_ReleasedOnError ==
    mainPc = "failed" => openGens = {}

\* Two trees hold the same Entities and the same Versions with equal contents.
SameVersions(old, new) ==
    /\ Entities(new) = Entities(old)
    /\ Slots(new) = Slots(old)
    /\ \A s \in Slots(old) : VersionAt(new, s) = VersionAt(old, s)

\* C19: Close, the time the store is closed and the reopening OpenDB with its
\* InitDB change no Entity and no Version, and when OpenDB returns the store
\* every Version committed before the Close is there with the same metadata
\* and payload.
C19_ClosePreserves ==
    [][/\ (mainPc # "ready" \/ mainPc' # "ready") => SameVersions(disk, disk')
       /\ (mainPc = "opening" /\ mainPc' = "ready") => SameVersions(atClose, disk')]_vars

\* Versions of two Entities were committed before the Close, the store has
\* been reopened, and no call has been made on it yet.
C19_Witness ==
    /\ store = 2 /\ mainPc = "ready"
    /\ hnd["w1"] = 1 /\ pc["w1"] = "idle"
    /\ Stored(atClose, In1) /\ Stored(atClose, In7) /\ Stored(atClose, In5)
    /\ Stored(disk, In1) /\ Stored(disk, In7) /\ Stored(disk, In5)

\* The errors the statement at p's position can return.
FailuresAt(p) ==
    CASE pc[p] = "hash" -> {"hash write failed"}
      [] pc[p] = "begin" -> {"database not open"}
      [] pc[p] = "commit" -> {"commit failed"}
      [] OTHER -> {"engine error at " \o pc[p],
                   StepEffect(pc[p], tx[p], arg[p], ver[p]).err} \ {NoErr}

\* C20: AddCatVersion returns nil only from the commit of a transaction that
\* holds the five metadata keys and the payload of its arguments; it passes a
\* statement only when the statement returned nil; when a statement fails the
\* call returns that statement's error with empty ids at once, its
\* transaction is discarded and the committed tree is as before.
C20_NoErrorSwallowed ==
    [][\A p \in Callers :
          kind[p] = "add" =>
              /\ (pc[p] # "done" /\ pc'[p] = "done" /\ ret'[p].err = NoErr)
                    => /\ pc[p] = "commit"
                       /\ disk' = tx[p]
                       /\ WrittenBy(disk', SlotOf(arg[p]), arg[p])
              /\ (InFn(p) /\ pc'[p] \notin {pc[p], "done"})
                    => /\ StepEffect(pc[p], tx[p], arg[p], ver[p]).err = NoErr
                       /\ tx'[p] = StepEffect(pc[p], tx[p], arg[p], ver[p]).root
                       /\ pc'[p] = NextStep(pc[p])
              /\ CallFails(p)
                    => /\ ret'[p].err \in FailuresAt(p)
                       /\ ret'[p].catId = "" /\ ret'[p].versionId = ""
                       /\ tx'[p] = EmptyBucket
                       /\ disk' = disk]_vars

\* The creation of the data bucket of a new Version of c2 has failed: the call
\* returned that error and no ids, and the address holds nothing.
C20_Witness ==
    /\ pc["w1"] = "done"
    /\ ret["w1"] = Ret("", "", "engine error at data")
    /\ half["w1"] = <<"c2", hashURL(URL1)>>
    /\ half["w1"] \notin Slots(disk)

\* C21: every AddCatVersion call that has been entered returns, with success
\* or with an error, also when two callers contend for the write transaction;
\* the only position where a call can wait is the begin of db.Update, and
\* there only while another process is inside its transaction.
C21_WaitsOnlyForWriter ==
    \A c \in Callers :
        /\ pc[c] \notin {"idle", "done", "begin"}
              => ENABLED (HashStep(c) \/ TxStep(c) \/ Commit(c))
        /\ pc[c] = "begin" => (ENABLED Begin(c) \/ \E q \in Procs \ {c} : InTx(q))

C21_EventuallyReturns ==
    /\ []C21_WaitsOnlyForWriter
    /\ \A c \in Callers : (pc[c] = "hash") ~> (pc[c] = "done")

\* One caller waits at the begin of db.Update while the other is inside its
\* transaction.
C21_Witness ==
    /\ kind["w1"] = "add" /\ pc["w1"] = "begin" /\ ~ENABLED Begin("w1")
    /\ kind["w2"] = "add" /\ pc["w2"] = "putTags"

\* C22 as stated: a call begins at most one write transaction; when it has
\* returned it has begun none if its hashing failed and exactly one otherwise.
C22_ExactlyOneUnlessHashFails ==
    \A c \in Callers :
        /\ begun[c] <= 1
        /\ (kind[c] = "add" /\ pc[c] = "done")
              => begun[c] = IF ret[c].err = "hash write failed" THEN 0 ELSE 1

\* C22, amended: a call begins at most one write transaction and a failed
\* transaction is not begun again; when the call has returned it has begun
\* none if its hashing failed or db.Update found the handle closed, and
\* exactly one otherwise.
C22_AtMostOneNoRetry ==
    \A c \in Callers :
        /\ begun[c] <= 1
        /\ (kind[c] = "add" /\ pc[c] = "done")
              => begun[c] = IF ret[c].err \in {"hash write failed", "database not open"}
                            THEN 0 ELSE 1
        /\ (kind[c] = "add" /\ InTx(c)) => begun[c] = 1
        /\ pc[c] \in {"idle", "hash", "begin"} => begun[c] = 0

\* A call's transaction failed at the url put, and the call has returned the
\* error with that one transaction begun.
C22_Witness ==
    /\ pc["w1"] = "done" /\ kind["w1"] = "add"
    /\ ret["w1"].err = "engine error at putURL"
    /\ begun["w1"] = 1

Complete(t) == ~t.img.nil /\ ~t.meta.nil /\ t.err = NilErr
Failed(t) == t.img.nil /\ t.meta.nil /\ t.err # NilErr
FetchPositions == {"generate", "newRequest", "do", "decodeJSON", "get", "readAll", "decode"}

\* C23: RequestRandomCat returns (nil, nil, error) when a step of the fetch
\* fails and (image, metadata, nil) when none does, never a mix of the two,
\* and HandleButtonClick returns to its caller what RequestRandomCat returned.
C23_CompleteOrError ==
    /\ [](/\ rq.pc \in {"returned", "done"} => Complete(rq.ret) \/ Failed(rq.ret)
          /\ rq.pc = "done" => rq.out = rq.ret
          /\ (rq.pc = "returned" /\ jsonDecode(rq.body).err # NilErr) => Failed(rq.ret)
          /\ (rq.pc = "returned" /\ rq.respBody # <<>> /\ imageDecode(rq.respBody).err # NilErr)
                => Failed(rq.ret))
    /\ [][(rq.pc # "returned" /\ rq'.pc = "returned")
            => IF rq.pc = "compare"
               THEN /\ Complete(rq'.ret)
                    /\ rq'.ret.img = imageDecode(rq.respBody).img
                    /\ rq'.ret.meta.md = jsonDecode(rq.body).meta
               ELSE rq.pc \in FetchPositions /\ Failed(rq'.ret)]_vars

\* The caller holds a complete result of one call, and the next call has
\* returned the error of decoding a truncated image after its metadata was
\* decoded.
C23_Witness ==
    /\ rq.pc = "returned"
    /\ Complete(rq.out)
    /\ rq.body = "{png}" /\ rq.respBody = CorruptBytes
    /\ rq.ret = Triple(NilImg, NilMeta, "unexpected EOF")

\* C28: when the decoded format differs from the MIME type of the metadata,
\* RequestRandomCat returns the decoded image, the metadata as it was
\* received and a nil error.
C28_MismatchIsNoError ==
    (/\ rq.pc = "returned"
     /\ jsonDecode(rq.body).err = NilErr
     /\ imageDecode(rq.respBody).err = NilErr
     /\ "image/" \o imageDecode(rq.respBody).format # jsonDecode(rq.body).meta.MIMEType)
        => /\ rq.ret.err = NilErr
           /\ rq.ret.img = imageDecode(rq.respBody).img
           /\ ~rq.ret.meta.nil
           /\ rq.ret.meta.md = jsonDecode(rq.body).meta

\* The metadata said image/jpeg, the body was a PNG picture of 4 by 3, and
\* the call returned the picture with the metadata still saying image/jpeg.
C28_Witness ==
    /\ rq.pc = "returned"
    /\ rq.body = "{jpeg}" /\ rq.respBody = PNGBytes
    /\ rq.ret.img = Img("png", 4, 3)
    /\ rq.ret.meta.md.MIMEType = "image/jpeg"
    /\ rq.ret.err = NilErr

Running == {g \in Fetchers : fetch[g].pc # "free"}
InFrame == run.pc \in {"clicked", "layout", "draw", "frame"}

\* C24: at most one fetch goroutine runs at any time, whatever the clicks
\* and the frames.
C24_AtMostOneFetch == Cardinality(Running) <= 1

\* C25: no goroutine is in the middle of writing the current image while
\* the event loop is about to read it or another goroutine is in the middle
\* of writing it, and so the loop never hands a torn image to DrawImage.
C25_NoConcurrentAccess ==
    /\ \A g \in Fetchers :
           fetch[g].pc = "store"
              => /\ run.pc \notin {"layout", "draw"}
                 /\ \A h \in Fetchers \ {g} : fetch[h].pc # "store"
    /\ ~Torn(run.drawn)

\* C26: when a fetch goroutine ends, with an image or with an error, the
\* window has been invalidated.
C26_InvalidatedAfterFetch ==
    [][\A g \in Fetchers :
          (fetch[g].pc # "free" /\ fetch'[g].pc = "free") => win'.invalidated]_vars

\* C27: Run leaves its loop only on a DestroyEvent and returns that event's
\* error; every FrameEvent received is committed once; an event of another
\* type leaves Run in the loop.
C27_ExitsOnlyOnDestroy ==
    /\ [](/\ run.pc \notin {"event", "clicked", "layout", "draw", "frame"}
               => run.pc = "returned" /\ run.e.type = "destroy" /\ run.err = run.e.err
          /\ win.committed = win.frames - (IF InFrame THEN 1 ELSE 0)
          /\ InFrame => run.e.type = "frame")
    /\ [][(win'.received # win.received /\ run'.e.type \notin {"destroy", "frame"})
             => run'.pc = "event"]_vars

\* The exact ratio min(maxW/imgW, maxH/imgH) as a fraction of integers.
FitsWidth(img, gtx) == gtx.maxW * img.h <= gtx.maxH * img.w
RatioNum(img, gtx) == IF FitsWidth(img, gtx) THEN gtx.maxW ELSE gtx.maxH
RatioDen(img, gtx) == IF FitsWidth(img, gtx) THEN img.w ELSE img.h

\* side * num / den with its fraction discarded, or one less when the
\* product is a whole number that the rounding of the ratio fell short of.
ScaledBy(final, side, num, den) ==
    final * den <= side * num /\ side * num <= (final + 1) * den

StoredTags(root, s) == VersionAt(root, s).kids[bucketMetadata].kids[dbKeyMetaTags].val

\* The text the tag lists of the inputs are to be stored as.
TagsText(tags) ==
    CASE tags = <<>> -> ""
      [] tags = <<"a">> -> "a"
      [] tags = <<"a", "b">> -> "a, b"
      [] tags = <<"b", "c", "a">> -> "b, c, a"

\* C30: the tags value of every Version is the tags of the call that last
\* wrote it, in their order, joined by a comma and a space: "a, b" for a and
\* b, the tag itself for one tag, the empty string for none.
C30_TagsJoined ==
    \A w \in written : StoredTags(disk, w[1]) = TagsText(w[2].md.Tags)

\* Versions written with one tag, with two and with none are stored.
C30_Witness ==
    /\ Stored(disk, In2) /\ StoredTags(disk, SlotOf(In2)) = "a"
    /\ Stored(disk, In4) /\ StoredTags(disk, SlotOf(In4)) = "a, b"
    /\ Stored(disk, In5) /\ StoredTags(disk, SlotOf(In5)) = ""

\* The zero digits before the first nonzero one of the sixteen of a word.
RECURSIVE LeadingZeros(_, _)
LeadingZeros(ds, k) == IF k > 16 \/ ds[k] # 0 THEN 0 ELSE 1 + LeadingZeros(ds, k + 1)

\* C31 as stated: every version id a call derives has 16 hex digits.
C31_FixedWidth ==
    \A p \in Callers : ver[p] # "" => Len(ver[p]) = 16

\* C31, amended: the version id has the 16 hex digits of the sum less its
\* leading zeros, at least one digit and at most 16.
C31_NoLeadingZeros ==
    \A p \in Callers :
        ver[p] # "" =>
            /\ Len(ver[p]) \in 1..16
            /\ Len(ver[p]) = 16 - LeadingZeros(Nibbles(Sum64(arg[p].md.URL)), 1)
            /\ arg[p].md.URL = URL1 => Len(ver[p]) = 16

\* A call has derived the id of a url whose sum is 0x036b52465dd4f80e: 15
\* digits.
C31_Witness ==
    /\ pc["w1"] = "begin"
    /\ arg["w1"].md.URL = URL2
    /\ ver["w1"] = "36b52465dd4f80e"
    /\ Len(ver["w1"]) = 15

\* C32: a call that ends at the derivation of the version id returns empty
\* ids and the error, has begun no write transaction, and leaves the
\* committed tree and every transaction as they were.
C32_HashFailure ==
    /\ [](\A p \in Callers :
            (pc[p] = "done" /\ ret[p].err = "hash write failed")
               => ret[p].catId = "" /\ ret[p].versionId = "" /\ begun[p] = 0)
    /\ [][\A p \in Callers :
            (pc[p] = "hash" /\ pc'[p] = "done")
               => /\ ret'[p] = Ret("", "", "hash write failed")
                  /\ begun[p] = 0 /\ begun'[p] = 0
                  /\ disk' = disk /\ tx' = tx /\ written' = written]_vars

\* A Version is stored, and a later call has failed at the derivation of
\* its version id.
C32_Witness ==
    /\ pc["w1"] = "done"
    /\ ret["w1"] = Ret("", "", "hash write failed")
    /\ begun["w1"] = 0
    /\ Stored(disk, In1)

\* The bucket a locate-or-create statement of p's transaction function asks for.
TargetPath(p) ==
    CASE pc[p] = "init" -> <<bucketCats>>
      [] pc[p] = "entity" -> CatPath(arg[p])
      [] pc[p] = "version" -> VersionPath(arg[p], ver[p])
      [] pc[p] = "metadata" -> MetadataPath(arg[p], ver[p])
      [] pc[p] = "data" -> DataPath(arg[p], ver[p])

\* p's locate-or-create statement returns without an error in this step.
Located(p) ==
    /\ pc[p] \in {"init", "entity", "version", "metadata", "data"}
    /\ pc'[p] = IF pc[p] = "init" THEN "commit" ELSE NextStep(pc[p])

\* C33: a locate-or-create statement whose bucket exists leaves the
\* transaction's tree as it is, one whose bucket is missing adds that bucket,
\* empty, and nothing else; an InitDB that commits on a store leaves the
\* committed tree as it is.
C33_LocateOrCreate ==
    [][\A p \in Procs :
          /\ Located(p) =>
                IF ExistsAt(tx[p], TargetPath(p))
                THEN tx'[p] = tx[p]
                ELSE LET path == TargetPath(p)
                         up == SubSeq(path, 1, Len(path) - 1)
                         key == path[Len(path)]
                     IN  /\ GetAt(tx'[p], path) = EmptyBucket
                         /\ DOMAIN GetAt(tx'[p], up).kids = DOMAIN GetAt(tx[p], up).kids \cup {key}
                         /\ tx'[p] = SetAt(tx[p], up, WithKid(GetAt(tx[p], up), key, EmptyBucket))
          /\ (kind[p] = "init" /\ pc[p] = "commit" /\ pc'[p] = "done" /\ store # 0)
                => disk' = disk]_vars

\* A call with the arguments of the Version that is stored has run all four
\* creation statements and the metadata puts, and its tree is the committed one.
C33_Witness ==
    /\ kind["w1"] = "add" /\ pc["w1"] = "putData"
    /\ arg["w1"] = In1
    /\ Stored(disk, In1)
    /\ tx["w1"] = disk

\* C34: when a fetch goroutine ends after an error the current image is the
\* one from before, and when it ends after a success the current image is
\* the image it fetched.
C34_ImageAfterFetch ==
    [][\A g \in Fetchers :
          (fetch[g].pc # "free" /\ fetch'[g].pc = "free")
             => IF fetch[g].err # NilErr THEN currentImage' = currentImage
                ELSE currentImage' = fetch[g].img]_vars

\* C35: while the deferred closes of RequestRandomCat run, failing or not,
\* the results set by its return statement stay as they are; no body is open
\* that was not obtained, and when the call has returned to its caller every
\* body it obtained is closed and the caller has those results.
C35_CloseNeverMasks ==
    /\ [](/\ rq.open \subseteq rq.bodies
          /\ rq.closeErrs \subseteq rq.bodies \ rq.open
          /\ rq.pc = "done" => rq.open = {} /\ rq.out = rq.ret)
    /\ [][(rq.pc = "returned" /\ rq'.pc \in {"returned", "done"})
             => /\ rq'.ret = rq.ret
                /\ rq'.pc = "done" => rq'.out = rq.ret]_vars

\* Both bodies were obtained and the Close of each failed, and the caller has
\* the picture, the metadata and no error.
C35_Witness ==
    /\ rq.pc = "done"
    /\ rq.bodies = {"meta", "image"}
    /\ rq.closeErrs = {"meta", "image"}
    /\ rq.out = Triple(Img("png", 4, 3), MetaPtr(MetaPNG), NilErr)

\* C36: at most two requests are sent and the first is the metadata request;
\* a second one exists only when the metadata body was obtained and decoded
\* without error, and it goes to the URL of the decoded metadata; it is sent
\* by a step that follows the decode.
C36_RequestsInOrder ==
    /\ [](/\ Len(rq.sent) <= 2
          /\ Len(rq.sent) >= 1 => rq.sent[1] = reqURL
          /\ Len(rq.sent) = 2
               => /\ "meta" \in rq.bodies
                  /\ jsonDecode(rq.body).err = NilErr
                  /\ rq.sent[2] = jsonDecode(rq.body).meta.URL
          /\ rq.pc \in {"generate", "newRequest", "do", "decodeJSON", "get"}
               => Len(rq.sent) <= 1)
    /\ [][Len(rq'.sent) = 2 /\ Len(rq.sent) < 2
             => rq.pc = "get" /\ Len(rq.sent) = 1 /\ rq.meta = jsonDecode(rq.body).meta]_vars

\* The picture was asked of the address the metadata named.
C36_Witness ==
    /\ rq.pc = "done"
    /\ rq.sent = <<reqURL, URL2>>
    /\ rq.meta = MetaJPEG

\* The metadata did not decode and the call is over with one request sent.
C36_WitnessNoImageRequest ==
    /\ rq.pc = "done"
    /\ rq.body = "<html>"
    /\ rq.sent = <<reqURL>>

\* A call in progress on the CatPic can take a step: it is past its Lock, or
\* it is at its Lock and the mutex is unlocked.
CanStep(t) ==
    \/ thr[t].pc \in {"body", "unlock", "ret", "draw"}
    \/ thr[t].pc = "lock" /\ pic.mu = Unlocked

\* C37: each call on a CatPic takes effect at one moment between its start
\* and its return, the moment its body runs holding the mutex, and there it
\* does to img and isLoading, and answers, what the same call does on a pair
\* of registers; where no write of a register overlapped another, the
\* register holds what the write that returned last wrote. Only SetImage
\* changes img and only SetLoading and ClearLoading change isLoading. The
\* mutex is held only inside a body, by one goroutine at a time, and while
\* any call is in progress some call can take a step.
C37_Linearizable ==
    /\ [](/\ pic.img = reg.img
          /\ pic.isLoading = reg.loading
          /\ reg.imgKnown => pic.img = reg.lastImg
          /\ reg.loadingKnown => pic.isLoading = reg.lastLoading
          /\ \A t \in Threads :
               /\ thr[t].pc \in {"unlock", "ret", "draw"} => thr[t].res = thr[t].lin
               /\ thr[t].pc \in {"body", "unlock"} <=> pic.mu = t
          /\ (\E t \in Threads : thr[t].pc # "idle") => \E t \in Threads : CanStep(t))
    /\ [][/\ (pic.made /\ pic'.img # pic.img)
               => \E t \in Threads : /\ thr[t].pc = "body" /\ thr[t].op = "SetImage"
                                     /\ pic.mu = t /\ pic'.img = thr[t].a
          /\ (pic.made /\ pic'.isLoading # pic.isLoading)
               => \E t \in Threads :
                     /\ thr[t].pc = "body" /\ pic.mu = t
                     /\ thr[t].op \in {"SetLoading", "ClearLoading"}
                     /\ pic'.isLoading = (thr[t].op = "SetLoading")
          /\ \A t \in Threads :
               /\ (thr[t].pc = "ret" /\ thr'[t].pc = "idle") => thr'[t].out = thr[t].lin
               /\ (thr[t].pc = "body" /\ thr'[t].pc = "unlock" /\ thr[t].op = "GetImage"
                     /\ reg.imgKnown) => thr'[t].res.img = reg.lastImg
               /\ (thr[t].pc = "body" /\ thr'[t].pc = "unlock" /\ thr[t].op = "IsLoading"
                     /\ reg.loadingKnown) => thr'[t].res.b = reg.lastLoading]_vars

\* SetImage of one goroutine has released the mutex and not yet returned,
\* and a GetImage of the other, begun meanwhile, waits for nothing and has
\* read the new picture while loading is set.
C37_Witness ==
    /\ thr["t1"].pc = "ret" /\ thr["t1"].op = "SetImage" /\ thr["t1"].a = Img("gif", 2, 2)
    /\ thr["t2"].pc = "ret" /\ thr["t2"].op = "GetImage"
    /\ thr["t2"].res = Res(FALSE, Img("gif", 2, 2))
    /\ pic.isLoading

\* A goroutine waits for the mutex that another holds inside Draw's GetImage.
C37_WitnessContended ==
    /\ thr["t1"].pc = "lock"
    /\ thr["t2"].pc = "body" /\ thr["t2"].inDraw

\* C38: an AddCatVersion call that reaches db.Update on a closed handle
\* returns there with an error and two empty ids and leaves the file as it
\* is; a closed handle never opens again, no transaction runs on a closed
\* handle, the file changes only through a transaction on an open handle,
\* and while no handle is open the file is as Close left it.
C38_ClosedStoreRejects ==
    /\ [](/\ \A p \in Procs : InTx(p) => hnd[p] \in openGens
          /\ openGens = {} => disk = atClose
          /\ \A c \in Callers :
               (pc[c] = "done" /\ kind[c] = "add" /\ ret[c].err = "database not open")
                  => ret[c].catId = "" /\ ret[c].versionId = "" /\ begun[c] = 0)
    /\ [][/\ \A c \in Callers :
               (kind[c] = "add" /\ pc[c] = "begin" /\ hnd[c] \notin openGens
                  /\ pc'[c] # "begin")
                  => /\ pc'[c] = "done"
                     /\ ret'[c].err # NoErr
                     /\ ret'[c].catId = "" /\ ret'[c].versionId = ""
                     /\ disk' = disk
                     /\ begun'[c] = 0
          /\ \A g \in 1..gen : g \notin openGens => g \notin openGens'
          /\ disk' # disk => \E p \in Procs : pc[p] = "commit" /\ hnd[p] \in openGens]_vars

\* The store holds a Version, Close has returned, and a call made on the
\* closed store has returned the error and no ids.
C38_Witness ==
    /\ mainPc = "closed"
    /\ openGens = {}
    /\ Slots(disk) # {}
    /\ pc["w1"] = "done" /\ kind["w1"] = "add"
    /\ ret["w1"] = Ret("", "", "database not open")
    /\ hnd["w1"] = store

====
